---- MODULE Spec2Model ----
(***************************************************************************)
(* Model of adbsync.py (better-adb-sync): the tree snapshot builder, the   *)
(* five-way diff (FileSyncer.diff_trees), the tree hygiene utilities and   *)
(* the executor part of main() that applies the decision trees to the     *)
(* destination endpoint.                                                   *)
(*                                                                         *)
(* Trees.  A Python tree value is None, a tuple (atime, mtime) or a dict.  *)
(* The model tags the three cases:                                         *)
(*     [k |-> "N"]                    None                                 *)
(*     [k |-> "L", t |-> <<a, m>>]    tuple (atime, mtime)                 *)
(*     [k |-> "D", d |-> f]           dict; f maps keys (names and the     *)
(*                                    self key ".") to tree values         *)
(* Paths are sequences of one-character strings, so that os.path.join and  *)
(* fnmatch work on them character by character.                            *)
(***************************************************************************)
EXTENDS Integers, Sequences, FiniteSets, TLC

\* ------------------------------------------------------------------ bounds
MaxEntries == 3      \* files + directories below the two sync roots together
MaxDepth == 2        \* nesting below a sync root

\* --------------------------------------------------------------- universe
Names == {"a", "b"}
NameOrder == <<"a", "b">>          \* sorted() order of the names
SelfKey == "."
FileTimes == {<<90, 0>>, <<0, 90>>}   \* (st_atime, st_mtime) of the initial files, seconds
DirTime == <<30, 30>>              \* st_atime, st_mtime of the initial directories
SecondsPerMinute == 60
NowTime == 2 * SecondsPerMinute + 30   \* clock of the destination during the run

\* ------------------------------------------------------------ tree values
None == [k |-> "N"]
Leaf(t) == [k |-> "L", t |-> t]
Branch(f) == [k |-> "D", d |-> f]
IsNone(x) == x.k = "N"
IsTuple(x) == x.k = "L"
IsDict(x) == x.k = "D"

\* dict.get(key, None)
DictGet(f, key) == IF key \in DOMAIN f THEN f[key] ELSE None
\* {}
EmptyDict == <<>>
\* dict[key] = value
DictPut(f, key, value) == (key :> value) @@ f

\* ------------------------------------------------------------------ paths
\* os.path.join(base, leaf) for POSIX paths
join(base, leaf) ==
    IF leaf # <<>> /\ leaf[1] = "/" THEN leaf
    ELSE IF base = <<>> \/ base[Len(base)] = "/" THEN base \o leaf
    ELSE base \o <<"/">> \o leaf

RECURSIVE SplitSlash(_)
\* path.split("/"): the components of a path, empty ones included
SplitSlash(p) ==
    IF \A i \in 1..Len(p) : p[i] # "/" THEN <<p>>
    ELSE LET i == CHOOSE j \in 1..Len(p) : p[j] = "/" /\ \A h \in 1..(j-1) : p[h] # "/"
         IN  <<SubSeq(p, 1, i-1)>> \o SplitSlash(SubSeq(p, i+1, Len(p)))

RECURSIVE NormComps(_, _)
\* the loop of posixpath.normpath over the components: drops "" and ".",
\* lets ".." cancel the component before it
NormComps(comps, acc) ==
    IF comps = <<>> THEN acc
    ELSE LET c == Head(comps) IN
         IF c = <<>> \/ c = <<".">> THEN NormComps(Tail(comps), acc)
         ELSE IF c = <<".", ".">> /\ acc # <<>> /\ acc[Len(acc)] # <<".", ".">>
              THEN NormComps(Tail(comps), SubSeq(acc, 1, Len(acc) - 1))
         ELSE NormComps(Tail(comps), Append(acc, c))

RECURSIVE JoinSlash(_)
JoinSlash(comps) ==
    IF comps = <<>> THEN <<>>
    ELSE IF Len(comps) = 1 THEN comps[1]
    ELSE comps[1] \o <<"/">> \o JoinSlash(Tail(comps))

\* os.path.normpath for a relative POSIX path (the sync roots of the model
\* are relative paths)
normpath(p) ==
    LET comps == NormComps(SplitSlash(p), <<>>)
    IN  IF comps = <<>> THEN <<".">> ELSE JoinSlash(comps)

RECURSIVE GlobMatch(_, _, _, _)
GlobMatch(s, i, p, j) ==
    IF j > Len(p) THEN i > Len(s)
    ELSE IF p[j] = "*"
         THEN GlobMatch(s, i, p, j + 1) \/ (i <= Len(s) /\ GlobMatch(s, i + 1, p, j))
    ELSE IF p[j] = "?"
         THEN i <= Len(s) /\ GlobMatch(s, i + 1, p, j + 1)
    ELSE i <= Len(s) /\ s[i] = p[j] /\ GlobMatch(s, i + 1, p, j + 1)

\* fnmatch.fnmatch(name, pattern): "*" matches any run of characters, "/"
\* included, "?" any one character, everything else itself
fnmatch(name, pattern) == GlobMatch(name, 1, pattern, 1)

\* the exclusion test at the top of diff_trees
IsExcluded(path_destination, destination_exclude_patterns) ==
    \E i \in 1..Len(destination_exclude_patterns) :
        fnmatch(path_destination, destination_exclude_patterns[i])

\* ------------------------------------------------------- snapshot builder
\* 60 * (int(t) // 60): a timestamp at minute resolution
MinuteResolution(t) == SecondsPerMinute * (t \div SecondsPerMinute)

\* what lstat / lstat_in_dir report for a file system entry with times t:
\* os.lstat gives both times; the Android listing (ls_to_stat) has only the
\* modify time, to the minute, and reports it as the access time too
StatTimes(endpoint, t) ==
    IF endpoint = "android"
    THEN <<MinuteResolution(t[2]), MinuteResolution(t[2])>>
    ELSE t

\* the tuple _get_files_tree stores for a stat result
SnapshotTuple(st) == Leaf(<<MinuteResolution(st[1]), MinuteResolution(st[2])>>)

\* the names of a dict besides the self key
ChildKeys(tree) == (DOMAIN tree.d) \ {SelfKey}

\* sort_tree: the keys of a dict in sorted() order; the executor visits the
\* children of every dict in this order
SortedKeys(tree) ==
    SelectSeq(NameOrder, LAMBDA key : key \in ChildKeys(tree))

RECURSIVE get_files_tree(_, _)
\* FileSystem._get_files_tree on an endpoint whose entries are regular files
\* and directories; node is the file system entry, None when the path does
\* not exist (main() turns FileNotFoundError into a None tree)
get_files_tree(endpoint, node) ==
    IF IsNone(node) THEN None
    ELSE IF IsTuple(node) THEN SnapshotTuple(StatTimes(endpoint, node.t))
    ELSE LET RECURSIVE Listing(_, _)
             \* the loop over lstat_in_dir
             Listing(filenames, tree) ==
                 IF filenames = <<>> THEN tree
                 ELSE Listing(Tail(filenames),
                              DictPut(tree, Head(filenames),
                                      get_files_tree(endpoint, node.d[Head(filenames)])))
         IN  Branch(Listing(SortedKeys(node),
                            DictPut(EmptyDict, SelfKey,
                                    SnapshotTuple(StatTimes(endpoint, node.d[SelfKey].t)))))

\* ------------------------------------------------------------- diff_trees
\* a diff that also reports as unaccounted the destination file it deletes
DeletedAlsoUnaccounted(delete, copy, excluded_source, unaccounted_destination, excluded_destination, fatal) ==
    [delete |-> delete, copy |-> copy, excluded_source |-> excluded_source,
     unaccounted_destination |-> IF delete.k = "L" THEN delete ELSE unaccounted_destination,
     excluded_destination |-> excluded_destination, fatal |-> fatal]

DiffResult(delete, copy, excluded_source, unaccounted_destination, excluded_destination, fatal) ==
    [delete |-> delete, copy |-> copy, excluded_source |-> excluded_source,
     unaccounted_destination |-> unaccounted_destination,
     excluded_destination |-> excluded_destination, fatal |-> fatal]

\* {".": None}
SelfNone == Branch(SelfKey :> None)

\* a tie-break that also copies a file whose modify time equals the destination's
SourceIsNotOlder(source, destination) == source.t[2] >= destination.t[2]

\* a tie-break on the access times
SourceAtimeIsNewer(source, destination) == source.t[1] > destination.t[1]

\* source[1] > destination[1]: the tie-break of two files
SourceIsNewer(source, destination) == source.t[2] > destination.t[2]

\* a dict whose self entry is lost
SelfDictOfNone(self) == DictPut(EmptyDict, SelfKey, None)

\* {".": self}
SelfDict(self) == DictPut(EmptyDict, SelfKey, self)

\* the five dicts a directory level starts its loops with
DiffStart(delete, copy, excluded_source, unaccounted_destination, excluded_destination) ==
    [delete |-> delete, copy |-> copy, excluded_source |-> excluded_source,
     unaccounted_destination |-> unaccounted_destination,
     excluded_destination |-> excluded_destination, fatal |-> FALSE]

RECURSIVE diff_trees(_, _, _, _, _, _)
diff_trees(source, destination, path_source, path_destination, destination_exclude_patterns, folder_file_overwrite_error) ==
    LET exclude == IsExcluded(path_destination, destination_exclude_patterns)
        \* the recursive call for one child key
        sub(s, d, key) ==
            diff_trees(s, d, join(path_source, <<key>>), join(path_destination, <<key>>),
                       destination_exclude_patterns, folder_file_overwrite_error)
        RECURSIVE OnlySource(_, _)
        \* _, copy[key], excluded_source[key], _, _ = diff_trees(value, None, ...)
        OnlySource(keys, acc) ==
            IF keys = <<>> THEN acc
            ELSE LET key == Head(keys)
                     r == sub(source.d[key], None, key)
                 IN  OnlySource(Tail(keys),
                        [acc EXCEPT !.copy = DictPut(@, key, r.copy),
                                    !.excluded_source = DictPut(@, key, r.excluded_source),
                                    !.fatal = @ \/ r.fatal])
        RECURSIVE OnlyDestination(_, _)
        \* delete[key], _, _, unaccounted_destination[key], excluded_destination[key] =
        \*     diff_trees(None, value, ...)
        OnlyDestination(keys, acc) ==
            IF keys = <<>> THEN acc
            ELSE LET key == Head(keys)
                     r == sub(None, destination.d[key], key)
                 IN  OnlyDestination(Tail(keys),
                        [acc EXCEPT !.delete = DictPut(@, key, r.delete),
                                    !.unaccounted_destination = DictPut(@, key, r.unaccounted_destination),
                                    !.excluded_destination = DictPut(@, key, r.excluded_destination),
                                    !.fatal = @ \/ r.fatal])
        RECURSIVE Both(_, _)
        \* all five [key] = diff_trees(value, destination.pop(key, None), ...)
        Both(keys, acc) ==
            IF keys = <<>> THEN acc
            ELSE LET key == Head(keys)
                     r == sub(source.d[key], DictGet(destination.d, key), key)
                 IN  Both(Tail(keys),
                        [acc EXCEPT !.delete = DictPut(@, key, r.delete),
                                    !.copy = DictPut(@, key, r.copy),
                                    !.excluded_source = DictPut(@, key, r.excluded_source),
                                    !.unaccounted_destination = DictPut(@, key, r.unaccounted_destination),
                                    !.excluded_destination = DictPut(@, key, r.excluded_destination),
                                    !.fatal = @ \/ r.fatal])
        \* the dicts of a directory level as trees
        Result(acc, delete_is_dict, copy_is_dict, excluded_source_is_dict, unaccounted_is_dict, excluded_destination_is_dict, fatal) ==
            DiffResult(IF delete_is_dict THEN Branch(acc.delete) ELSE acc.delete,
                       IF copy_is_dict THEN Branch(acc.copy) ELSE acc.copy,
                       IF excluded_source_is_dict THEN Branch(acc.excluded_source) ELSE acc.excluded_source,
                       IF unaccounted_is_dict THEN Branch(acc.unaccounted_destination) ELSE acc.unaccounted_destination,
                       IF excluded_destination_is_dict THEN Branch(acc.excluded_destination) ELSE acc.excluded_destination,
                       acc.fatal \/ fatal)
    IN
    IF IsNone(source) THEN
        IF IsNone(destination) THEN
            DiffResult(None, None, None, None, None, FALSE)
        ELSE IF IsTuple(destination) THEN
            IF exclude
            THEN DiffResult(None, None, None, None, destination, FALSE)
            ELSE DiffResult(None, None, None, destination, None, FALSE)
        ELSE
            IF exclude
            THEN DiffResult(SelfNone, None, None, SelfNone, destination, FALSE)
            ELSE Result(OnlyDestination(SortedKeys(destination),
                            DiffStart(SelfDict(None), None, None,
                                      SelfDict(destination.d[SelfKey]), SelfDict(None))),
                        TRUE, FALSE, FALSE, TRUE, TRUE, FALSE)
    ELSE IF IsTuple(source) THEN
        IF IsNone(destination) THEN
            IF exclude
            THEN DiffResult(None, None, source, None, None, FALSE)
            ELSE DiffResult(None, source, None, None, None, FALSE)
        ELSE IF IsTuple(destination) THEN
            IF exclude
            THEN DiffResult(None, None, source, None, destination, FALSE)
            ELSE IF SourceIsNewer(source, destination)
                 THEN DiffResult(destination, source, None, None, None, FALSE)
                 ELSE DiffResult(None, None, None, None, None, FALSE)
        ELSE
            IF exclude
            THEN DiffResult(SelfNone, None, source, SelfNone, destination, FALSE)
            ELSE DiffResult(destination, source, None, SelfNone, SelfNone,
                            folder_file_overwrite_error)
    ELSE
        IF IsNone(destination) THEN
            IF exclude
            THEN DiffResult(None, SelfNone, source, None, None, FALSE)
            ELSE Result(OnlySource(SortedKeys(source),
                            DiffStart(None, SelfDict(source.d[SelfKey]), SelfDict(None),
                                      None, None)),
                        FALSE, TRUE, TRUE, FALSE, FALSE, FALSE)
        ELSE IF IsTuple(destination) THEN
            \* line 887 resets excluded_destination to None on both branches
            IF exclude
            THEN DiffResult(None, SelfNone, source, None, None, FALSE)
            ELSE Result(OnlySource(SortedKeys(source),
                            DiffStart(destination, SelfDict(source.d[SelfKey]), SelfDict(None),
                                      None, None)),
                        FALSE, TRUE, TRUE, FALSE, FALSE, folder_file_overwrite_error)
        ELSE
            IF exclude
            THEN DiffResult(SelfNone, SelfNone, source, SelfNone, destination, FALSE)
            ELSE LET skeys == SortedKeys(source)
                     \* the keys left in destination after the pops of the first loop
                     dkeys == SelectSeq(SortedKeys(destination),
                                        LAMBDA key : key \notin ChildKeys(source))
                 IN  Result(OnlyDestination(dkeys,
                                Both(skeys,
                                     DiffStart(SelfDict(None), SelfDict(None), SelfDict(None),
                                               SelfDict(None), SelfDict(None)))),
                            TRUE, TRUE, TRUE, TRUE, TRUE, FALSE)

\* a dict without the key: dict.pop(key)
DictPop(f, key) == [x \in (DOMAIN f) \ {key} |-> f[x]]

RECURSIVE popped(_, _, _, _)
\* the two arguments of diff_trees as the call leaves them: the function pops
\* the self key of every dict it walks into, and pops from a destination dict
\* every key it finds in the source dict (lines 761, 845, 870, 901, 905, 913)
popped(source, destination, path_destination, destination_exclude_patterns) ==
    LET exclude == IsExcluded(path_destination, destination_exclude_patterns)
        sub(s, d, key) ==
            popped(s, d, join(path_destination, <<key>>), destination_exclude_patterns)
        RECURSIVE Items(_, _, _)
        \* the children of the dict of one side after the recursive calls made
        \* for the keys, the other side being None
        Items(keys, side, f) ==
            IF keys = <<>> THEN f
            ELSE LET key == Head(keys)
                     r == IF side = "source" THEN sub(f[key], None, key).source
                          ELSE sub(None, f[key], key).destination
                 IN  Items(Tail(keys), side, DictPut(f, key, r))
        RECURSIVE Both(_, _)
        \* the source dict after the recursive calls on value and
        \* destination.pop(key, None)
        Both(keys, f) ==
            IF keys = <<>> THEN f
            ELSE LET key == Head(keys)
                 IN  Both(Tail(keys),
                          DictPut(f, key, sub(f[key], DictGet(destination.d, key), key).source))
        unchanged == [source |-> source, destination |-> destination]
    IN
    IF exclude \/ IsTuple(source) THEN unchanged
    ELSE IF IsNone(source) THEN
        IF IsDict(destination)
        THEN [source |-> source,
              destination |-> Branch(Items(SortedKeys(destination), "destination",
                                           DictPop(destination.d, SelfKey)))]
        ELSE unchanged
    ELSE
        IF ~IsDict(destination)
        THEN [source |-> Branch(Items(SortedKeys(source), "source", DictPop(source.d, SelfKey))),
              destination |-> destination]
        ELSE LET dkeys == SelectSeq(SortedKeys(destination),
                                    LAMBDA key : key \notin ChildKeys(source))
                 left == [key \in {dkeys[i] : i \in 1..Len(dkeys)} |-> destination.d[key]]
             IN  [source |-> Branch(Both(SortedKeys(source), DictPop(source.d, SelfKey))),
                  destination |-> Branch(Items(dkeys, "destination", left))]

\* --------------------------------------------------------- tree utilities
\* "return return_dict" without the "or None"
ReturnDict(return_dict) == Branch(return_dict)

\* "return return_dict or None" at the end of prune_tree
PruneReturn(return_dict) ==
    IF DOMAIN return_dict = {} THEN None ELSE Branch(return_dict)

\* the keys of a dict in the order the loops of the tree utilities take them
DictKeys(tree) ==
    (IF SelfKey \in DOMAIN tree.d THEN <<SelfKey>> ELSE <<>>) \o SortedKeys(tree)

RECURSIVE prune_tree(_)
prune_tree(tree) ==
    IF ~IsDict(tree) THEN tree
    ELSE LET RECURSIVE Items(_, _)
             Items(keys, return_dict) ==
                 IF keys = <<>> THEN return_dict
                 ELSE LET value_pruned == prune_tree(tree.d[Head(keys)])
                      IN  Items(Tail(keys),
                                IF ~IsNone(value_pruned)
                                THEN DictPut(return_dict, Head(keys), value_pruned)
                                ELSE return_dict)
         IN  PruneReturn(Items(DictKeys(tree), EmptyDict))

\* a lookup that never finds the excluded subtree of a key
NoExcludedChild(excluded, unaccounted_key) == None

\* excluded.get(unaccounted_key, None)
ExcludedChild(excluded, unaccounted_key) == DictGet(excluded.d, unaccounted_key)

RECURSIVE remove_excluded_folders_from_unaccounted_tree(_, _)
remove_excluded_folders_from_unaccounted_tree(unaccounted, excluded) ==
    IF IsNone(excluded) THEN unaccounted
    ELSE LET RECURSIVE Items(_, _)
             Items(keys, unaccounted_non_excluded) ==
                 IF keys = <<>> THEN unaccounted_non_excluded
                 ELSE Items(Tail(keys),
                            DictPut(unaccounted_non_excluded, Head(keys),
                                    remove_excluded_folders_from_unaccounted_tree(
                                        unaccounted.d[Head(keys)],
                                        ExcludedChild(excluded, Head(keys)))))
         IN  Branch(Items(SortedKeys(unaccounted), EmptyDict))

\* ---------------------------------------------------- endpoint operations
\* one call of a mutating endpoint primitive
Call(op, path, src, times) == [op |-> op, path |-> path, src |-> src, times |-> times]

\* the calls made whatever dry_run says
Regardless(dry_run, calls) == calls

\* "if not dry_run:" in front of every mutating call of remove_tree and
\* push_tree_here
UnlessDryRun(dry_run, calls) == IF dry_run THEN <<>> ELSE calls

\* a removal that takes the folder before what is in it
FolderFirst(children_calls, folder_calls) == folder_calls \o children_calls

\* the order of the calls remove_tree makes for a dict: children, then folder
RemoveOrder(children_calls, folder_calls) == children_calls \o folder_calls

RECURSIVE remove_tree(_, _, _)
\* FileSystem.remove_tree: the endpoint calls it makes, in order
remove_tree(tree_path, tree, dry_run) ==
    IF IsTuple(tree) THEN UnlessDryRun(dry_run, <<Call("unlink", tree_path, <<>>, <<>>)>>)
    ELSE LET remove_folder == SelfKey \in DOMAIN tree.d /\ ~IsNone(tree.d[SelfKey])
             keys == SortedKeys(tree)
             RECURSIVE Items(_)
             Items(ks) ==
                 IF ks = <<>> THEN <<>>
                 ELSE remove_tree(normpath(join(tree_path, <<Head(ks)>>)), tree.d[Head(ks)], dry_run)
                      \o Items(Tail(ks))
         IN  RemoveOrder(
                Items(keys),
                IF remove_folder
                THEN UnlessDryRun(dry_run, <<Call("rmdir", tree_path, <<>>, <<>>)>>)
                ELSE <<>>)

\* the calls push_tree_here makes for one file
PushFile(tree_path, tree, destination_root) ==
    << Call("push_file_here", destination_root, tree_path, <<>>),
       Call("utime", destination_root, <<>>, tree.t) >>

\* a copy that makes the directory after its contents
ContentsFirst(tree, destination_root, dry_run, children_calls) ==
    children_calls \o (IF SelfKey \in DOMAIN tree.d
                       THEN UnlessDryRun(dry_run, <<Call("makedirs", destination_root, <<>>, <<>>)>>)
                       ELSE <<>>)

\* the calls push_tree_here makes for a dict, given those of its children
PushFolder(tree, destination_root, dry_run, children_calls) ==
    (IF SelfKey \in DOMAIN tree.d
     THEN UnlessDryRun(dry_run, <<Call("makedirs", destination_root, <<>>, <<>>)>>)
     ELSE <<>>) \o children_calls

RECURSIVE push_tree_here(_, _, _, _)
\* FileSystem.push_tree_here: the endpoint calls it makes, in order
push_tree_here(tree_path, tree, destination_root, dry_run) ==
    IF IsTuple(tree) THEN UnlessDryRun(dry_run, PushFile(tree_path, tree, destination_root))
    ELSE LET RECURSIVE Items(_)
             Items(ks) ==
                 IF ks = <<>> THEN <<>>
                 ELSE push_tree_here(normpath(join(tree_path, <<Head(ks)>>)), tree.d[Head(ks)],
                                     normpath(join(destination_root, <<Head(ks)>>)), dry_run)
                      \o Items(Tail(ks))
         IN  PushFolder(tree, destination_root, dry_run, Items(SortedKeys(tree)))

\* ------------------------------------------- the destination file system
\* An endpoint is the entry at the sync root: None (nothing there), a file
\* Leaf(<<st_atime, st_mtime>>) or a directory Branch(f), f["."] holding the
\* directory's own times.  A path of a call is resolved from the sync root.
RootComps(root) == SplitSlash(root)
RelComps(root, path) ==
    SubSeq(SplitSlash(path), Len(RootComps(root)) + 1, Len(SplitSlash(path)))

RECURSIVE GetAt(_, _)
GetAt(node, comps) ==
    IF comps = <<>> THEN node
    ELSE IF ~IsDict(node) THEN None
    ELSE GetAt(DictGet(node.d, comps[1][1]), Tail(comps))

Touched(t) == <<t[1], NowTime>>

\* the directory with its entry key replaced by child (removed when child is
\* None); adding or removing an entry changes the directory's modify time
WithChild(node, key, child) ==
    LET changed == IsNone(DictGet(node.d, key)) # IsNone(child)
        base == IF changed THEN DictPut(node.d, SelfKey, Leaf(Touched(node.d[SelfKey].t)))
                ELSE node.d
    IN  IF IsNone(child) THEN Branch([x \in (DOMAIN base) \ {key} |-> base[x]])
        ELSE Branch(DictPut(base, key, child))

RECURSIVE SetAt(_, _, _)
\* the tree with the entry at comps replaced; every directory on the way exists
SetAt(node, comps, new) ==
    IF comps = <<>> THEN new
    ELSE WithChild(node, comps[1][1], SetAt(DictGet(node.d, comps[1][1]), Tail(comps), new))

ParentIsDir(node, comps) ==
    comps = <<>> \/ IsDict(GetAt(node, SubSeq(comps, 1, Len(comps) - 1)))

NewDir == Branch(SelfKey :> Leaf(<<NowTime, NowTime>>))
NewFile == Leaf(<<NowTime, NowTime>>)

Outcome(fs, ok) == [fs |-> fs, ok |-> ok]

\* unlink: os.unlink / "rm path" (any output line of rm is fatal)
FsUnlink(fs, comps) ==
    IF IsTuple(GetAt(fs, comps)) THEN Outcome(SetAt(fs, comps, None), TRUE)
    ELSE Outcome(fs, FALSE)

\* rmdir: os.rmdir needs an empty directory; "rm -r path" removes whatever
\* is at the path
FsRmdir(endpoint, fs, comps) ==
    LET node == GetAt(fs, comps) IN
    IF endpoint = "android"
    THEN IF IsNone(node) THEN Outcome(fs, FALSE) ELSE Outcome(SetAt(fs, comps, None), TRUE)
    ELSE IF IsDict(node) /\ ChildKeys(node) = {}
         THEN Outcome(SetAt(fs, comps, None), TRUE)
         ELSE Outcome(fs, FALSE)

RECURSIVE MakeDirs(_, _)
\* os.makedirs(path, exist_ok = True) / "mkdir -p path"; a file on the way
\* makes it fail (the result is then None, which no directory is)
MakeDirs(node, comps) ==
    IF IsTuple(node) THEN None
    ELSE LET here == IF IsNone(node) THEN NewDir ELSE node IN
         IF comps = <<>> THEN here
         ELSE LET below == MakeDirs(DictGet(here.d, comps[1][1]), Tail(comps)) IN
              IF IsNone(below) THEN None ELSE WithChild(here, comps[1][1], below)

FsMakedirs(fs, comps) ==
    LET made == MakeDirs(fs, comps) IN
    IF IsNone(made) THEN Outcome(fs, FALSE) ELSE Outcome(made, TRUE)

\* push_file_here: "adb push" / "adb pull" of one file; a nonzero exit
\* status is fatal.  Onto a directory the file goes into that directory.
FsPushFile(fs, comps, src) ==
    LET node == GetAt(fs, comps)
        base == SplitSlash(src)[Len(SplitSlash(src))]
    IN  IF IsDict(node) THEN Outcome(SetAt(fs, Append(comps, base), NewFile), TRUE)
        ELSE IF ParentIsDir(fs, comps) THEN Outcome(SetAt(fs, comps, NewFile), TRUE)
        ELSE Outcome(fs, FALSE)

\* a touch that sets the start of the epoch
TouchEpoch(t) == 0

\* the time "touch -at <YYYYMMDDHHMM> -mt <YYYYMMDDHHMM>" sets
TouchTime(t) == MinuteResolution(t)

\* utime: os.utime / touch (which creates a missing file)
FsUtime(endpoint, fs, comps, times) ==
    LET node == GetAt(fs, comps)
        set == IF endpoint = "android" THEN <<TouchTime(times[1]), TouchTime(times[2])>> ELSE times
    IN  IF IsTuple(node) THEN Outcome(SetAt(fs, comps, Leaf(set)), TRUE)
        ELSE IF IsDict(node)
             THEN Outcome(SetAt(fs, comps, Branch([node.d EXCEPT ![SelfKey] = Leaf(set)])), TRUE)
        ELSE IF endpoint = "android" /\ ParentIsDir(fs, comps)
             THEN Outcome(SetAt(fs, comps, Leaf(set)), TRUE)
        ELSE Outcome(fs, FALSE)

ApplyCall(endpoint, root, fs, call) ==
    LET comps == RelComps(root, call.path) IN
    CASE call.op = "unlink" -> FsUnlink(fs, comps)
      [] call.op = "rmdir" -> FsRmdir(endpoint, fs, comps)
      [] call.op = "makedirs" -> FsMakedirs(fs, comps)
      [] call.op = "push_file_here" -> FsPushFile(fs, comps, call.src)
      [] call.op = "utime" -> FsUtime(endpoint, fs, comps, call.times)

\* "adb push" / "adb pull" ending with a nonzero exit status; whether the
\* file was written before the transfer failed is up to adb
FsPushFailed(fs, comps, src, written) ==
    IF written THEN Outcome(FsPushFile(fs, comps, src).fs, FALSE) ELSE Outcome(fs, FALSE)

\* every transfer of the run succeeds
NoFailure == [at |-> 0, written |-> FALSE]

\* what subprocess.call can return for the transfers of a sequence of calls:
\* zero for all of them, or nonzero for the transfer of the call at index at
TransferFailures(todo) ==
    {NoFailure} \cup { [at |-> i, written |-> written]
                        : i \in { j \in 1..Len(todo) : todo[j].op = "push_file_here" },
                          written \in BOOLEAN }

\* a fatal error that is only logged
NeverEnds(ok) == FALSE

\* logging_fatal raises SystemExit: a call that fails ends the run
EndsRun(ok) == ~ok

RECURSIVE ApplyCalls(_, _, _, _, _, _)
\* the calls are made one after the other; the first that fails ends the run.
\* done is the sequence of the calls made, the failing one included, each
\* with its outcome
ApplyCalls(endpoint, root, fs, calls, done, failure) ==
    IF calls = <<>> THEN [fs |-> fs, ok |-> TRUE, done |-> done]
    ELSE LET call == Head(calls)
             o == IF failure.at = Len(done) + 1
                  THEN FsPushFailed(fs, RelComps(root, call.path), call.src, failure.written)
                  ELSE ApplyCall(endpoint, root, fs, call)
             made == Append(done, [call |-> call, ok |-> o.ok])
         IN  IF EndsRun(o.ok) THEN [fs |-> o.fs, ok |-> FALSE, done |-> made]
             ELSE ApplyCalls(endpoint, root, o.fs, Tail(calls), made, failure)

\* ------------------------------------------------- the inputs of the model
RECURSIVE TreeSize(_)
\* the number of files and directories of a file system tree
TreeSize(node) ==
    IF IsNone(node) THEN 0
    ELSE IF IsTuple(node) THEN 1
    ELSE LET keys == SortedKeys(node) IN
         1 + (LET RECURSIVE Sum(_)
                  Sum(i) == IF i > Len(keys) THEN 0 ELSE TreeSize(node.d[keys[i]]) + Sum(i + 1)
              IN  Sum(1))

RECURSIVE RawSize(_)
\* the number of keys of all the dicts of a tree
RawSize(tree) ==
    IF ~IsDict(tree) THEN 0
    ELSE LET keys == DictKeys(tree)
             RECURSIVE Sum(_)
             Sum(i) == IF i > Len(keys) THEN 0 ELSE 1 + RawSize(tree.d[keys[i]]) + Sum(i + 1)
         IN  Sum(1)

RECURSIVE FsDicts(_, _, _)
RECURSIVE FsTrees(_, _)
\* the contents of a directory over the names NameOrder[i..]: nesting
\* <= depth below the directory, at most entries files and directories
FsDicts(depth, entries, i) ==
    IF i > Len(NameOrder) THEN {SelfKey :> Leaf(DirTime)}
    ELSE UNION { { IF IsNone(child) THEN rest ELSE DictPut(rest, NameOrder[i], child)
                   : rest \in FsDicts(depth, entries - TreeSize(child), i + 1) }
               : child \in {None} \cup (IF depth >= 1 /\ entries >= 1
                                        THEN FsTrees(depth - 1, entries - 1) ELSE {}) }

\* the entries a sync root can be: a file, or a directory with nesting
\* <= depth and at most entries files and directories below it
FsTrees(depth, entries) ==
    {Leaf(t) : t \in FileTimes} \cup {Branch(f) : f \in FsDicts(depth, entries, 1)}

\* the files and directories below a sync root
Entries(node) == IF IsDict(node) THEN TreeSize(node) - 1 ELSE 0

\* the --exclude lists of the model
ExcludeLists ==
    { <<>>,
      << <<"a">>, <<"*", "/", "b">> >> }

\* the direction of the command line; the runs of the model push from the
\* local endpoint to the Android endpoint
Directions == {"push"}

\* ------------------------------------------------------------------ state
VARIABLES
    args,                 \* the command line: dry_run, force, delete, delete_excluded, exclude, direction
    fs_source,            \* the source endpoint, at path_source
    fs_destination,       \* the destination endpoint, at path_destination
    synced,               \* an earlier run of the same command, not a dry run, completed
    pc,                   \* where main() is
    files_tree_source,    \* the snapshot of the source of the current run, as it was built
    files_tree_destination,
    source_after_diff,    \* the two snapshot objects as diff_trees left them
    destination_after_diff,
    tree_delete,
    tree_copy,
    tree_excluded_source,
    tree_unaccounted_destination,
    tree_excluded_destination,
    tree_unaccounted_destination_non_excluded,
    calls,                \* the endpoint calls of the current run, in order, with phase and outcome
    raw_tree,             \* a tree given to prune_tree on its own
    pruned_tree,          \* what prune_tree returned for it
    proc_adb_shell,       \* the shell subprocess: its stdin and stdout pipes, whether it has exited
    in_flight,            \* the commands written to the shell whose sentinel line has not been read
    stack,                \* the calls of the snapshot walk that wait for a reply or hold one
    handled               \* the lines of the replies to lstat and lstat_in_dir, with what was done with each

vars == <<args, fs_source, fs_destination, synced, pc, files_tree_source, files_tree_destination, source_after_diff, destination_after_diff, tree_delete, tree_copy, tree_excluded_source, tree_unaccounted_destination, tree_excluded_destination, tree_unaccounted_destination_non_excluded, calls, raw_tree, pruned_tree, proc_adb_shell, in_flight, stack, handled>>

\* the shell channel of the Android endpoint
shell == <<proc_adb_shell, in_flight, stack, handled>>

trees == <<tree_delete, tree_copy, tree_excluded_source, tree_unaccounted_destination, tree_excluded_destination, tree_unaccounted_destination_non_excluded>>

\* AndroidFileSystem.__init__: the shell subprocess has been started, nothing
\* has been written to it and it has printed nothing
ShellStarted(noise) == [stdin |-> <<>>, stdout |-> <<>>, exited |-> FALSE, noise |-> noise]

\* the channel of a run whose snapshots are taken in one step
ShellAtRest ==
    /\ proc_adb_shell = ShellStarted(0)
    /\ in_flight = 0
    /\ stack = <<>>
    /\ handled = <<>>

path_source == <<"s">>
path_destination == <<"d">>

\* push: local source, Android destination; pull: the other way round
SourceEndpoint == IF args.direction = "push" THEN "local" ELSE "android"
DestinationEndpoint == IF args.direction = "push" THEN "android" ELSE "local"

\* main(), lines 1056-1066: the two snapshots
SourceSnapshot == get_files_tree(SourceEndpoint, fs_source)
DestinationSnapshot == get_files_tree(DestinationEndpoint, fs_destination)

snapshots == <<files_tree_source, files_tree_destination, source_after_diff, destination_after_diff>>

\* main(), lines 1078-1085
excludePatterns(source_tree) ==
    LET source_is_dict == IsDict(source_tree)
        RECURSIVE Patterns(_)
        Patterns(excludes) ==
            IF excludes = <<>> THEN <<>>
            ELSE << IF source_is_dict
                    THEN normpath(join(path_destination, Head(excludes)))
                    ELSE normpath(path_destination \o Head(excludes)) >>
                 \o Patterns(Tail(excludes))
    IN  Patterns(args.exclude)

\* a diff that never refuses
NeverRefuse(dry_run, force) == FALSE

\* folder_file_overwrite_error = not args.force
NotForce(dry_run, force) == ~force

\* folder_file_overwrite_error = not args.dry_run and not args.force
folder_file_overwrite_error(dry_run, force) == ~dry_run /\ ~force

\* the result of diff_trees on the two snapshots
Diff(source_tree, destination_tree) ==
    diff_trees(source_tree, destination_tree, path_source, path_destination,
               excludePatterns(source_tree),
               folder_file_overwrite_error(args.dry_run, args.force))

Init ==
    /\ fs_source \in FsTrees(MaxDepth, MaxEntries)
    /\ fs_destination \in {None} \cup FsTrees(MaxDepth, MaxEntries - Entries(fs_source))
    /\ args \in [dry_run : BOOLEAN, force : BOOLEAN, delete : BOOLEAN,
                 delete_excluded : BOOLEAN, exclude : ExcludeLists, direction : Directions,
                 copy_links : {FALSE}]
    /\ synced = FALSE
    /\ pc = "start"
    /\ files_tree_source = None
    /\ files_tree_destination = None
    /\ source_after_diff = None
    /\ destination_after_diff = None
    /\ tree_delete = None
    /\ tree_copy = None
    /\ tree_excluded_source = None
    /\ tree_unaccounted_destination = None
    /\ tree_excluded_destination = None
    /\ tree_unaccounted_destination_non_excluded = None
    /\ calls = <<>>
    /\ raw_tree = None
    /\ pruned_tree = None
    /\ ShellAtRest

\* main(), lines 1056-1146: the snapshots, the diff, pruning and sorting; the
\* trees main() goes on with, and whether logging_fatal ended the run
Plan ==
    LET source_tree == SourceSnapshot
        destination_tree == DestinationSnapshot
        r == Diff(source_tree, destination_tree)
        after == popped(source_tree, destination_tree, path_destination,
                        excludePatterns(source_tree))
        unaccounted == prune_tree(r.unaccounted_destination)
        excluded == prune_tree(r.excluded_destination)
    IN  [files_tree_source |-> source_tree,
         files_tree_destination |-> destination_tree,
         source_after_diff |-> after.source,
         destination_after_diff |-> after.destination,
         fatal |-> r.fatal,
         delete |-> prune_tree(r.delete),
         copy |-> prune_tree(r.copy),
         excluded_source |-> prune_tree(r.excluded_source),
         unaccounted_destination |-> unaccounted,
         excluded_destination |-> excluded,
         unaccounted_destination_non_excluded |->
             IF IsNone(unaccounted) THEN None
             ELSE prune_tree(remove_excluded_folders_from_unaccounted_tree(
                                 unaccounted, excluded))]

DiffPhase ==
    /\ pc = "start"
    /\ \E r \in {Plan} :
           /\ files_tree_source' = r.files_tree_source
           /\ files_tree_destination' = r.files_tree_destination
           /\ IF r.fatal
              THEN /\ pc' = "refused"
                   /\ UNCHANGED <<trees, source_after_diff, destination_after_diff>>
              ELSE /\ pc' = "delete"
                   /\ source_after_diff' = r.source_after_diff
                   /\ destination_after_diff' = r.destination_after_diff
                   /\ tree_delete' = r.delete
                   /\ tree_copy' = r.copy
                   /\ tree_excluded_source' = r.excluded_source
                   /\ tree_unaccounted_destination' = r.unaccounted_destination
                   /\ tree_excluded_destination' = r.excluded_destination
                   /\ tree_unaccounted_destination_non_excluded' =
                         r.unaccounted_destination_non_excluded
    /\ UNCHANGED <<args, fs_source, fs_destination, synced, calls, raw_tree, pruned_tree, shell>>

\* an executor that copies before it cleans up
CopyBeforeCleanup(phase) ==
    CASE phase = "delete" -> "copy"
      [] phase = "copy" -> "cleanup"
      [] phase = "cleanup" -> "done"

\* the order of the executor's phases in main(), lines 1156-1204
PhaseAfter(phase) ==
    CASE phase = "delete" -> "cleanup"
      [] phase = "cleanup" -> "copy"
      [] phase = "copy" -> "done"

Tagged(phase, done) ==
    [i \in 1..Len(done) |-> [phase |-> phase, call |-> done[i].call, ok |-> done[i].ok]]

\* the executor makes the calls; a failing call ends the run
Execute(phase, todo) ==
    \E failure \in TransferFailures(todo) :
    \E o \in {ApplyCalls(DestinationEndpoint, path_destination, fs_destination, todo, <<>>,
                          failure)} :
    /\ fs_destination' = o.fs
    /\ calls' = calls \o Tagged(phase, o.done)
    /\ pc' = IF o.ok THEN PhaseAfter(phase) ELSE "aborted"
    /\ UNCHANGED <<args, fs_source, synced, snapshots, trees, raw_tree, pruned_tree, shell>>

RemoveCalls(tree) ==
    IF IsNone(tree) THEN <<>> ELSE remove_tree(path_destination, tree, args.dry_run)

\* main(), lines 1156-1161
DeletePhase ==
    /\ pc = "delete"
    /\ Execute("delete", RemoveCalls(tree_delete))

\* a cleanup that removes both trees whichever delete flag is given
CleanupBothAlways(delete, delete_excluded, excluded, unaccounted, unaccounted_non_excluded) ==
    IF delete_excluded \/ delete THEN <<excluded, unaccounted>> ELSE <<>>

\* a cleanup without the "elif args.delete" branch
CleanupWithoutDeleteOnly(delete, delete_excluded, excluded, unaccounted, unaccounted_non_excluded) ==
    IF delete_excluded /\ delete THEN <<excluded, unaccounted>>
    ELSE IF delete_excluded THEN <<excluded>>
    ELSE <<>>

\* main(), lines 1163-1189: which trees the cleanup removes, in order
CleanupTrees(delete, delete_excluded, excluded, unaccounted, unaccounted_non_excluded) ==
    IF delete_excluded /\ delete THEN <<excluded, unaccounted>>
    ELSE IF delete_excluded THEN <<excluded>>
    ELSE IF delete THEN <<unaccounted_non_excluded>>
    ELSE <<>>

CleanupPhase ==
    /\ pc = "cleanup"
    /\ LET ts == CleanupTrees(args.delete, args.delete_excluded, tree_excluded_destination,
                              tree_unaccounted_destination,
                              tree_unaccounted_destination_non_excluded)
           RECURSIVE Removals(_)
           Removals(todo) ==
               IF todo = <<>> THEN <<>> ELSE RemoveCalls(Head(todo)) \o Removals(Tail(todo))
       IN  Execute("cleanup", Removals(ts))

\* main(), lines 1191-1204
CopyPhase ==
    /\ pc = "copy"
    /\ Execute("copy",
               IF IsNone(tree_copy) THEN <<>>
               ELSE push_tree_here(path_source, tree_copy, path_destination, args.dry_run))

\* the same command is run again on the endpoints as the run left them
RunAgain ==
    /\ pc = "done"
    /\ synced' = (synced \/ ~args.dry_run)
    /\ pc' = "start"
    /\ calls' = <<>>
    /\ files_tree_source' = None
    /\ files_tree_destination' = None
    /\ source_after_diff' = None
    /\ destination_after_diff' = None
    /\ tree_delete' = None
    /\ tree_copy' = None
    /\ tree_excluded_source' = None
    /\ tree_unaccounted_destination' = None
    /\ tree_excluded_destination' = None
    /\ tree_unaccounted_destination_non_excluded' = None
    /\ UNCHANGED <<args, fs_source, fs_destination, raw_tree, pruned_tree, shell>>

Next == DiffPhase \/ DeletePhase \/ CleanupPhase \/ CopyPhase \/ RunAgain

Spec == Init /\ [][Next]_vars

\* ------------------------------------------------ prune_tree on its own
RECURSIVE RawDicts(_, _)
RECURSIVE RawTrees(_)
\* the dicts over the keys RawKeys[i..] with at most entries keys in all
RawKeys == <<SelfKey>> \o NameOrder
RawDicts(entries, i) ==
    IF i > Len(RawKeys) THEN {EmptyDict}
    ELSE RawDicts(entries, i + 1)
         \cup (IF entries < 1 THEN {}
               ELSE UNION { { DictPut(rest, RawKeys[i], value)
                              : rest \in RawDicts(entries - 1 - RawSize(value), i + 1) }
                            : value \in IF RawKeys[i] = SelfKey
                                        THEN {None, Leaf(DirTime)}
                                        ELSE RawTrees(entries - 1) })

\* None, a tuple, or a dict of such trees (empty dicts included)
RawTrees(entries) ==
    {None} \cup {Leaf(t) : t \in FileTimes} \cup {Branch(f) : f \in RawDicts(entries, 1)}

PruneInit ==
    /\ raw_tree \in RawTrees(MaxEntries)
    /\ pruned_tree = None
    /\ pc = "prune"
    /\ args = [dry_run |-> TRUE, force |-> FALSE, delete |-> FALSE, delete_excluded |-> FALSE,
               exclude |-> <<>>, direction |-> "push", copy_links |-> FALSE]
    /\ fs_source = Leaf(DirTime)
    /\ fs_destination = None
    /\ synced = FALSE
    /\ files_tree_source = None
    /\ files_tree_destination = None
    /\ source_after_diff = None
    /\ destination_after_diff = None
    /\ tree_delete = None
    /\ tree_copy = None
    /\ tree_excluded_source = None
    /\ tree_unaccounted_destination = None
    /\ tree_excluded_destination = None
    /\ tree_unaccounted_destination_non_excluded = None
    /\ calls = <<>>
    /\ ShellAtRest

\* tree = FileSyncer.prune_tree(tree)
Prune ==
    /\ pc = "prune"
    /\ pruned_tree' = prune_tree(raw_tree)
    /\ pc' = "pruned"
    /\ UNCHANGED <<args, fs_source, fs_destination, synced, snapshots, trees, calls, raw_tree, shell>>

\* prune_tree applied to its own result
PruneAgain ==
    /\ pc = "pruned"
    /\ raw_tree' = pruned_tree
    /\ pruned_tree' = prune_tree(pruned_tree)
    /\ pc' = "pruned again"
    /\ UNCHANGED <<args, fs_source, fs_destination, synced, snapshots, trees, calls, shell>>

PruneNext == Prune \/ PruneAgain

SpecPrune == PruneInit /\ [][PruneNext]_vars

\* ------------------------------------ the snapshot walk through the shell
\* get_files_tree on the Android endpoint, command by command: adb_shell
\* writes a command and the echo of the sentinel to the shell subprocess and
\* reads its output line by line; the shell runs the commands on the file
\* system of the device, which may hold symbolic links
MaxRemote == 2       \* files, directories and links below the root of the walk
MaxNoise == 1        \* replies into which the shell puts a line of its own

\* a symbolic link and the entry it resolves to (None: nothing)
Link(to) == [k |-> "S", to |-> to]
IsLink(x) == x.k = "S"

RemoteFile == Leaf(<<0, 90>>)

RECURSIVE RemoteSize(_)
\* the number of files, directories and links of a file system tree
RemoteSize(node) ==
    IF IsNone(node) THEN 0
    ELSE IF ~IsDict(node) THEN 1
    ELSE LET keys == SortedKeys(node)
             RECURSIVE Sum(_)
             Sum(i) == IF i > Len(keys) THEN 0 ELSE RemoteSize(node.d[keys[i]]) + Sum(i + 1)
         IN  1 + Sum(1)

RECURSIVE RemoteDicts(_, _)
\* the contents of a directory over the names NameOrder[i..]: at most
\* entries files, directories and links
RemoteDicts(entries, i) ==
    IF i > Len(NameOrder) THEN {SelfKey :> Leaf(DirTime)}
    ELSE UNION { { IF IsNone(child) THEN rest ELSE DictPut(rest, NameOrder[i], child)
                   : rest \in RemoteDicts(entries - RemoteSize(child), i + 1) }
               : child \in {None} \cup
                           (IF entries >= 1
                            THEN {RemoteFile, Link(None)}
                                 \cup {Branch(f) : f \in RemoteDicts(entries - 1, 1)}
                            ELSE {}) }

\* what the root of the walk can be: nothing, a file, a directory, or a link
\* to nothing, to a file or to a directory
RemoteRoots ==
    {None, RemoteFile}
    \cup {Branch(f) : f \in RemoteDicts(MaxRemote, 1)}
    \cup {Link(to) : to \in {None, RemoteFile}
                            \cup {Branch(f) : f \in RemoteDicts(MaxRemote - 1, 1)}}

RECURSIVE Lookup(_, _)
\* the entry at a path; the key "->" goes from a link to what it resolves to
Lookup(node, path) ==
    IF path = <<>> THEN node
    ELSE IF Head(path) = "->"
         THEN IF IsLink(node) THEN Lookup(node.to, Tail(path)) ELSE None
    ELSE IF IsDict(node) THEN Lookup(DictGet(node.d, Head(path)), Tail(path))
    ELSE None

\* the lines of the shell's output
Sentinel == [form |-> "sentinel"]              \* ADBSYNC_END_OF_COMMAND
TotalLine == [form |-> "total"]                \* "total 12"
ErrorLine(by, text) == [form |-> "error", by |-> by, text |-> text]   \* "ls: x: <text>"
TextLine == [form |-> "text"]                  \* any other text
PathLine(path) == [form |-> "path", path |-> path]   \* the path realpath prints
NoSuchFile == "No such file or directory"
NotADirectory == "Not a directory"

\* the modify time of an entry
Mtime(node) ==
    IF IsDict(node) THEN node.d[SelfKey].t[2]
    ELSE IF IsTuple(node) THEN node.t[2]
    ELSE 0

\* the line of "ls -l" for an entry: type character, time to the minute, name
LsLine(node, filename) ==
    [form |-> "stat",
     type |-> IF IsDict(node) THEN "d" ELSE IF IsLink(node) THEN "l" ELSE "-",
     filename |-> filename,
     mtime |-> MinuteResolution(Mtime(node))]

\* what the command prints on the device
Reply(root, command) ==
    LET node == Lookup(root, command.path) IN
    IF IsNone(node)
    THEN << ErrorLine(IF command.cmd = "realpath" THEN "realpath" ELSE "ls", NoSuchFile) >>
    ELSE IF command.cmd = "lstat" THEN << LsLine(node, "d") >>
    ELSE IF command.cmd = "lstat_in_dir"
         THEN IF IsDict(node)
              THEN LET keys == SortedKeys(node) IN
                   << TotalLine, LsLine(node, "."), LsLine(node, "..") >>
                   \o [i \in 1..Len(keys) |-> LsLine(node.d[keys[i]], keys[i])]
              ELSE << LsLine(node, "d") >>
    ELSE IF IsLink(node)
         THEN IF IsNone(node.to) THEN << ErrorLine("realpath", NoSuchFile) >>
              ELSE << PathLine(Append(command.path, "->")) >>
    ELSE << PathLine(command.path) >>

\* the lines the shell may put into a reply on its own
NoiseLines == {TextLine, TotalLine, ErrorLine("ls", NoSuchFile), ErrorLine("ls", NotADirectory)}

\* the reply as printed: as it is or, while the shell has noise left, with one
\* more line anywhere in it
Printed(reply, noise) ==
    {[lines |-> reply, noise |-> 0]}
    \cup (IF noise = 0 THEN {}
          ELSE { [lines |-> SubSeq(reply, 1, n) \o <<line>> \o SubSeq(reply, n + 1, Len(reply)),
                  noise |-> 1]
                 : n \in 0..Len(reply), line \in NoiseLines })

\* ls_to_stat: the exception it raises ("" when it returns), the file name
\* (<<>> is None: the name of a link is not captured) and the stat result
ls_to_stat(line) ==
    IF line.form = "error" /\ line.text = NoSuchFile
    THEN [raise |-> "FileNotFoundError"]
    ELSE IF line.form = "error" /\ line.by = "ls" /\ line.text = NotADirectory
    THEN [raise |-> "NotADirectoryError"]
    ELSE IF line.form = "stat"
    THEN [raise |-> "",
          filename |-> IF line.type = "l" THEN <<>> ELSE <<line.filename>>,
          st_mode |-> line.type,
          st_mtime |-> line.mtime]
    ELSE [raise |-> "SystemExit"]

\* a generator that yields the lines as it reads them
Streaming(state) == TRUE

\* adb_shell yields its lines when its read loop is over
LoopOver(state) == state = "yielding"

\* one call of adb_shell: the command, what it has read, and for
\* lstat_in_dir the dict _get_files_tree is filling
Frame(cmd, path, tree) ==
    [cmd |-> cmd, path |-> path, state |-> "reading", sentinel |-> FALSE,
     lines |-> <<>>, tree |-> tree]

\* what was done with a line of a reply
Handled(cmd, line, how) == [cmd |-> cmd, line |-> line, how |-> how]

top == stack[Len(stack)]
callers == SubSeq(stack, 1, Len(stack) - 1)

\* the variables the walk leaves alone
sync == <<args, fs_source, fs_destination, synced, files_tree_source, source_after_diff, destination_after_diff, trees, calls, raw_tree, pruned_tree>>

\* the walk ends in an exception or in logging_fatal
Ends(exception) ==
    /\ pc' = exception
    /\ UNCHANGED <<stack, proc_adb_shell, in_flight, files_tree_destination>>

\* the walk goes on in the same call
Continue(frames) ==
    /\ stack' = frames
    /\ UNCHANGED <<pc, proc_adb_shell, in_flight, files_tree_destination>>

\* the first lines of adb_shell: the command and the echo of the sentinel are
\* written and flushed; the pipe of a shell that has exited is broken
Issue(frame, under) ==
    IF proc_adb_shell.exited
    THEN Ends("BrokenPipeError")
    ELSE /\ proc_adb_shell' = [proc_adb_shell EXCEPT
                                  !.stdin = Append(@, [cmd |-> frame.cmd, path |-> frame.path])]
         /\ in_flight' = in_flight + 1
         /\ stack' = Append(under, frame)
         /\ pc' = "walking"
         /\ UNCHANGED files_tree_destination

\* the name a path ends in
ReturnName(path) ==
    LET names == SelectSeq(path, LAMBDA key : key # "->")
    IN  IF names = <<>> THEN SelfKey ELSE names[Len(names)]

\* _get_files_tree returns: to get_files_tree, or into tree[filename] of the
\* directory above
Return(value, under) ==
    /\ IF under = <<>>
       THEN /\ pc' = "walked"
            /\ files_tree_destination' = value
            /\ stack' = <<>>
       ELSE /\ stack' = [under EXCEPT ![Len(under)].tree = DictPut(@, ReturnName(top.path), value)]
            /\ UNCHANGED <<pc, files_tree_destination>>
    /\ UNCHANGED <<proc_adb_shell, in_flight>>

\* _get_files_tree(tree_path, st) up to its first command
walk(tree_path, st, under) ==
    IF st.st_mode = "l"
    THEN IF args.copy_links
         THEN Issue(Frame("realpath", tree_path, EmptyDict), under)
         ELSE Return(None, under)
    ELSE IF st.st_mode = "d"
    THEN Issue(Frame("lstat_in_dir", tree_path,
                     SelfDict(SnapshotTuple(<<st.st_mtime, st.st_mtime>>))), under)
    ELSE Return(SnapshotTuple(<<st.st_mtime, st.st_mtime>>), under)

\* get_files_tree: statObject = self.lstat(tree_path)
GetFilesTree ==
    /\ pc = "snapshot"
    /\ Issue(Frame("lstat", <<>>, EmptyDict), <<>>)
    /\ UNCHANGED <<handled, sync>>

\* the read loop of adb_shell: one readline()
ReadLine ==
    /\ pc = "walking" /\ stack # <<>> /\ top.state = "reading"
    /\ IF proc_adb_shell.stdout # <<>>
       THEN LET adb_line == Head(proc_adb_shell.stdout) IN
            /\ proc_adb_shell' = [proc_adb_shell EXCEPT !.stdout = Tail(@)]
            /\ IF adb_line = Sentinel
               THEN /\ stack' = [stack EXCEPT ![Len(stack)].state = "yielding",
                                              ![Len(stack)].sentinel = TRUE]
                    /\ in_flight' = in_flight - 1
               ELSE /\ stack' = [stack EXCEPT ![Len(stack)].lines = Append(@, adb_line)]
                    /\ UNCHANGED in_flight
       ELSE \* readline() returns nothing at the end of the stream
            /\ proc_adb_shell.exited
            /\ stack' = [stack EXCEPT ![Len(stack)].state = "yielding"]
            /\ UNCHANGED <<proc_adb_shell, in_flight>>
    /\ UNCHANGED <<pc, files_tree_destination, handled, sync>>

\* lstat: "for line in adb_shell: return ls_to_stat(line)[1]", and what its
\* caller does with the result
LstatReturn ==
    /\ pc = "walking" /\ stack # <<>> /\ top.cmd = "lstat" /\ LoopOver(top.state)
    /\ IF top.lines = <<>>
       THEN \* lstat returns None, _get_files_tree reads None.st_mode
            /\ Ends("AttributeError")
            /\ UNCHANGED handled
       ELSE LET line == Head(top.lines)
                r == ls_to_stat(line)
            IN  IF r.raise \in {"FileNotFoundError", "NotADirectoryError"}
                THEN /\ handled' = Append(handled, Handled("lstat", line, r.raise))
                     /\ IF top.path = <<>>
                        THEN Ends(r.raise)           \* get_files_tree: up to main()
                        ELSE Return(None, callers)     \* "Skipping symlink"
                ELSE IF r.raise = "SystemExit"
                THEN /\ handled' = Append(handled, Handled("lstat", line, r.raise))
                     /\ Ends("SystemExit")
                ELSE /\ handled' = handled \o <<Handled("lstat", line, "stat")>>
                                   \o [i \in 1..(Len(top.lines) - 1) |->
                                          Handled("lstat", top.lines[i + 1], "unexamined")]
                     /\ walk(top.path, r, callers)
    /\ UNCHANGED sync

\* realpath, and the lstat of its result in _get_files_tree
RealpathReturn ==
    /\ pc = "walking" /\ stack # <<>> /\ top.cmd = "realpath" /\ LoopOver(top.state)
    /\ IF top.lines # <<>> /\ Head(top.lines).form = "error" /\ Head(top.lines).by = "realpath"
       THEN Return(None, callers)                      \* "Skipping symlink"
       ELSE \* the line is taken for the path; without a line realpath returns
            \* None and lstat asks for the path ''
            Issue(Frame("lstat",
                        IF top.lines # <<>> /\ Head(top.lines).form = "path"
                        THEN Head(top.lines).path ELSE <<"?">>,
                        EmptyDict), callers)
    /\ UNCHANGED <<handled, sync>>

\* one round of "for filename, stat_object_child in self.lstat_in_dir(tree_path)"
ListingNext ==
    /\ pc = "walking" /\ stack # <<>> /\ top.cmd = "lstat_in_dir"
    /\ top.lines # <<>> /\ LoopOver(top.state)
    /\ LET line == Head(top.lines)
           rest == [stack EXCEPT ![Len(stack)].lines = Tail(@)]
           r == ls_to_stat(line)
       IN  IF line.form = "total"
           THEN /\ handled' = Append(handled, Handled("lstat_in_dir", line, "skipped"))
                /\ Continue(rest)
           ELSE /\ handled' = Append(handled, Handled("lstat_in_dir", line,
                                                      IF r.raise = "" THEN "stat" ELSE r.raise))
                /\ IF r.raise # "" THEN Ends(r.raise)
                   ELSE IF r.filename \in {<<".">>, <<"..">>} THEN Continue(rest)
                   ELSE IF r.filename = <<>>
                   THEN Ends("TypeError")            \* self.join(tree_path, None)
                   ELSE IF r.st_mode = "d"
                   THEN Issue(Frame("lstat_in_dir", Append(top.path, r.filename[1]),
                                    SelfDict(SnapshotTuple(<<r.st_mtime, r.st_mtime>>))), rest)
                   ELSE IF r.st_mode = "l"
                   THEN IF args.copy_links
                        THEN Issue(Frame("realpath", Append(top.path, r.filename[1]), EmptyDict),
                                   rest)
                        ELSE Continue([rest EXCEPT ![Len(rest)].tree =
                                           DictPut(@, r.filename[1], None)])
                   ELSE Continue([rest EXCEPT ![Len(rest)].tree =
                                      DictPut(@, r.filename[1],
                                              SnapshotTuple(<<r.st_mtime, r.st_mtime>>))])
    /\ UNCHANGED sync

\* the loop over lstat_in_dir is over: "return tree"
ListingEnd ==
    /\ pc = "walking" /\ stack # <<>> /\ top.cmd = "lstat_in_dir"
    /\ top.state = "yielding" /\ top.lines = <<>>
    /\ Return(Branch(top.tree), callers)
    /\ UNCHANGED <<handled, sync>>

\* the shell runs the next command and the echo of the sentinel
ShellRun ==
    /\ pc = "walking" /\ ~proc_adb_shell.exited /\ proc_adb_shell.stdin # <<>>
    /\ \E out \in Printed(Reply(fs_destination, Head(proc_adb_shell.stdin)),
                          proc_adb_shell.noise) :
           proc_adb_shell' = [stdin |-> Tail(proc_adb_shell.stdin),
                              stdout |-> proc_adb_shell.stdout \o out.lines \o <<Sentinel>>,
                              exited |-> FALSE,
                              noise |-> proc_adb_shell.noise - out.noise]
    /\ UNCHANGED <<pc, in_flight, stack, handled, files_tree_destination, sync>>

\* the shell exits (the device is gone), after any part of the output of the
\* command it was to run
ShellExit ==
    /\ pc \in {"snapshot", "walking"} /\ ~proc_adb_shell.exited
    /\ LET reply == IF proc_adb_shell.stdin = <<>> THEN <<>>
                    ELSE Reply(fs_destination, Head(proc_adb_shell.stdin))
       IN  \E n \in 0..Len(reply) :
               proc_adb_shell' = [stdin |-> <<>>,
                                  stdout |-> proc_adb_shell.stdout \o SubSeq(reply, 1, n),
                                  exited |-> TRUE,
                                  noise |-> proc_adb_shell.noise]
    /\ UNCHANGED <<pc, in_flight, stack, handled, files_tree_destination, sync>>

ShellInit ==
    /\ fs_destination \in RemoteRoots
    /\ args \in [dry_run : {TRUE}, force : {FALSE}, delete : {FALSE}, delete_excluded : {FALSE},
                 exclude : {<<>>}, direction : {"push"}, copy_links : BOOLEAN]
    /\ pc = "snapshot"
    /\ proc_adb_shell = ShellStarted(MaxNoise)
    /\ in_flight = 0
    /\ stack = <<>>
    /\ handled = <<>>
    /\ fs_source = Leaf(DirTime)
    /\ synced = FALSE
    /\ files_tree_source = None
    /\ files_tree_destination = None
    /\ source_after_diff = None
    /\ destination_after_diff = None
    /\ tree_delete = None
    /\ tree_copy = None
    /\ tree_excluded_source = None
    /\ tree_unaccounted_destination = None
    /\ tree_excluded_destination = None
    /\ tree_unaccounted_destination_non_excluded = None
    /\ calls = <<>>
    /\ raw_tree = None
    /\ pruned_tree = None

ShellNext ==
    \/ GetFilesTree \/ ReadLine \/ LstatReturn \/ RealpathReturn \/ ListingNext \/ ListingEnd
    \/ ShellRun \/ ShellExit

SpecShell == ShellInit /\ [][ShellNext]_vars

\* ------------------------------------- the snapshot walk on local files
\* get_files_tree on the local endpoint, call by call of _get_files_tree,
\* over a directory that may hold symbolic links to any path
MaxLocal == 2        \* files, directories and links below the root of the walk
MaxRecursion == 4    \* calls of _get_files_tree the interpreter lets nest

\* a symbolic link to a path, given as the keys from the root of the walk
Symlink(target) == [k |-> "P", target |-> target]
IsSymlink(x) == x.k = "P"

LocalFile == Leaf(<<90, 0>>)

\* where the links of the model point: the root of the walk or a name in it
LinkTargets == {<<>>} \cup { <<name>> : name \in Names }

RECURSIVE LocalAt(_, _)
\* os.lstat: the entry at a path without links on the way, None when missing
LocalAt(node, path) ==
    IF path = <<>> THEN node
    ELSE IF IsNone(node) \/ ~IsDict(node) THEN None
    ELSE LocalAt(DictGet(node.d, Head(path)), Tail(path))

RECURSIVE LocalSize(_)
\* the number of files, directories and links of a local tree
LocalSize(node) ==
    IF IsNone(node) THEN 0
    ELSE IF ~IsDict(node) THEN 1
    ELSE LET keys == SortedKeys(node)
             RECURSIVE Sum(_)
             Sum(i) == IF i > Len(keys) THEN 0 ELSE LocalSize(node.d[keys[i]]) + Sum(i + 1)
         IN  1 + Sum(1)

RECURSIVE LocalDicts(_, _)
\* the contents of a directory over the names NameOrder[i..]: at most
\* entries files, directories and links
LocalDicts(entries, i) ==
    IF i > Len(NameOrder) THEN {SelfKey :> Leaf(DirTime)}
    ELSE UNION { { IF IsNone(child) THEN rest ELSE DictPut(rest, NameOrder[i], child)
                   : rest \in LocalDicts(entries - LocalSize(child), i + 1) }
               : child \in {None} \cup
                           (IF entries >= 1
                            THEN {LocalFile} \cup { Symlink(target) : target \in LinkTargets }
                                 \cup {Branch(f) : f \in LocalDicts(entries - 1, 1)}
                            ELSE {}) }

RECURSIVE Resolve(_, _, _)
\* os.path.realpath of a path whose directories are no links: the links are
\* followed; a path in a loop of links comes back as it is
Resolve(root, path, links) ==
    LET node == LocalAt(root, path) IN
    IF IsNone(node) \/ ~IsSymlink(node) \/ links = 0 THEN path
    ELSE Resolve(root, node.target, links - 1)

realpath(root, path) == Resolve(root, path, MaxLocal + 1)

\* the call of _get_files_tree on a directory: the names os.listdir has
\* still to give, the name being walked, and the dict "tree"
ListFrame(path, todo, tree) ==
    [op |-> "list", path |-> path, todo |-> todo, name |-> SelfKey, tree |-> tree]

\* the call of _get_files_tree on a link that it follows
FollowFrame(path) ==
    [op |-> "follow", path |-> path, todo |-> {}, name |-> SelfKey, tree |-> EmptyDict]

RECURSIVE Unwind(_)
\* "return self._get_files_tree(tree_path_realpath, ...)": the calls on links
\* pass the value on
Unwind(frames) ==
    IF frames # <<>> /\ frames[Len(frames)].op = "follow"
    THEN Unwind(SubSeq(frames, 1, Len(frames) - 1))
    ELSE frames

\* the variables the local walk leaves alone
walk_rest == <<args, fs_source, fs_destination, synced, files_tree_destination, source_after_diff, destination_after_diff, trees, calls, raw_tree, pruned_tree, proc_adb_shell, in_flight, handled>>

\* a call of _get_files_tree returns value: into tree[filename] of the call
\* on the directory, or to get_files_tree
Deliver(value, frames) ==
    \E callers_left \in {Unwind(frames)} :
        IF callers_left = <<>>
        THEN /\ pc' = "walked"
             /\ files_tree_source' = value
             /\ stack' = <<>>
        ELSE /\ stack' = [callers_left EXCEPT ![Len(callers_left)].tree =
                              DictPut(@, callers_left[Len(callers_left)].name, value)]
             /\ pc' = "walking"
             /\ UNCHANGED files_tree_source

\* a call that goes on: one more call nests, unless the interpreter's limit
\* is reached (RecursionError)
Nest(frame, frames) ==
    IF Len(frames) >= MaxRecursion
    THEN /\ pc' = "RecursionError"
         /\ stack' = frames
         /\ UNCHANGED files_tree_source
    ELSE /\ stack' = Append(frames, frame)
         /\ pc' = "walking"
         /\ UNCHANGED files_tree_source

\* _get_files_tree(tree_path, lstat(tree_path)) up to its first call
LocalWalk(path, frames) ==
    LET node == LocalAt(fs_source, path) IN
    IF IsSymlink(node)
    THEN IF args.copy_links
         THEN Nest(FollowFrame(path), frames)
         ELSE Deliver(None, frames)
    ELSE IF IsDict(node)
    THEN Nest(ListFrame(path, ChildKeys(node),
                        SelfDict(SnapshotTuple(StatTimes("local", node.d[SelfKey].t)))), frames)
    ELSE Deliver(SnapshotTuple(StatTimes("local", node.t)), frames)

\* get_files_tree(path_source)
LocalGetFilesTree ==
    /\ pc = "snapshot"
    /\ LocalWalk(<<>>, <<>>)
    /\ UNCHANGED walk_rest

\* one round of "for filename, stat_object_child in self.lstat_in_dir(...)";
\* os.listdir gives the names in any order
WalkChild ==
    /\ pc = "walking" /\ stack # <<>> /\ top.op = "list"
    /\ \E name \in top.todo :
          LocalWalk(Append(top.path, name),
                    [stack EXCEPT ![Len(stack)].todo = @ \ {name}, ![Len(stack)].name = name])
    /\ UNCHANGED walk_rest

\* the loop over the directory is over: "return tree"
WalkReturn ==
    /\ pc = "walking" /\ stack # <<>> /\ top.op = "list" /\ top.todo = {}
    /\ Deliver(Branch(top.tree), callers)
    /\ UNCHANGED walk_rest

\* "Following symlink": realpath, lstat of the result, and the call on it;
\* FileNotFoundError from lstat is caught ("Skipping symlink")
FollowLink ==
    /\ pc = "walking" /\ stack # <<>> /\ top.op = "follow"
    /\ \E tree_path_realpath \in {realpath(fs_source, top.path)} :
          IF IsNone(LocalAt(fs_source, tree_path_realpath))
          THEN Deliver(None, stack)
          ELSE LocalWalk(tree_path_realpath, stack)
    /\ UNCHANGED walk_rest

WalkInit ==
    /\ fs_source \in {Branch(f) : f \in LocalDicts(MaxLocal, 1)}
    /\ args \in [dry_run : {TRUE}, force : {FALSE}, delete : {FALSE}, delete_excluded : {FALSE},
                 exclude : {<<>>}, direction : {"push"}, copy_links : BOOLEAN]
    /\ pc = "snapshot"
    /\ ShellAtRest
    /\ fs_destination = None
    /\ synced = FALSE
    /\ files_tree_source = None
    /\ files_tree_destination = None
    /\ source_after_diff = None
    /\ destination_after_diff = None
    /\ tree_delete = None
    /\ tree_copy = None
    /\ tree_excluded_source = None
    /\ tree_unaccounted_destination = None
    /\ tree_excluded_destination = None
    /\ tree_unaccounted_destination_non_excluded = None
    /\ calls = <<>>
    /\ raw_tree = None
    /\ pruned_tree = None

WalkNext == LocalGetFilesTree \/ WalkChild \/ WalkReturn \/ FollowLink

\* the interpreter goes on with the walk as long as there is something to do
SpecWalk == WalkInit /\ [][WalkNext]_vars /\ WF_vars(WalkNext)

\* ---------------------------------------------------------------- properties
\* the places of main() after the diff
PostDiff == {"delete", "cleanup", "copy", "done"}

RECURSIVE TreeKeys(_, _)
\* the entries a tree names, its tuples and its dicts with a self entry, each
\* as the sequence of keys that leads to it
TreeKeys(tree, keys) ==
    IF IsNone(tree) THEN {}
    ELSE IF IsTuple(tree) THEN {keys}
    ELSE (IF ~IsNone(DictGet(tree.d, SelfKey)) THEN {keys} ELSE {})
         \cup UNION { TreeKeys(tree.d[key], Append(keys, key)) : key \in ChildKeys(tree) }

EntriesOf(tree) == TreeKeys(tree, <<>>)

RECURSIVE At(_, _)
\* the value a tree holds under a sequence of keys, None when it holds nothing
At(tree, keys) ==
    IF keys = <<>> THEN tree
    ELSE IF ~IsDict(tree) THEN None
    ELSE At(DictGet(tree.d, Head(keys)), Tail(keys))

RECURSIVE DestinationPath(_)
\* the destination path of an entry
DestinationPath(keys) ==
    IF keys = <<>> THEN path_destination
    ELSE join(DestinationPath(SubSeq(keys, 1, Len(keys) - 1)), <<keys[Len(keys)]>>)

\* the destination paths of the entries of a tree
DestinationPaths(tree) == { DestinationPath(keys) : keys \in EntriesOf(tree) }

\* the directories above an entry, the sync root included
Above(keys) == { SubSeq(keys, 1, n) : n \in 0..(Len(keys) - 1) }

\* the path lies below the directory
PathIsBelow(directory, path) ==
    /\ Len(directory) < Len(path)
    /\ SubSeq(path, 1, Len(directory)) = directory
    /\ path[Len(directory) + 1] = "/"

\* the entry's destination path matches one of the patterns
ExcludedAt(patterns, keys) == IsExcluded(DestinationPath(keys), patterns)

\* neither the entry nor a directory above it matches a pattern
NotExcludedFromRoot(patterns, keys) ==
    \A prefix \in Above(keys) \cup {keys} : ~ExcludedAt(patterns, prefix)

\* the indices of the calls of a phase
PhaseCalls(phase) == { i \in 1..Len(calls) : calls[i].phase = phase }

\* the paths the calls of a phase were made on
PhasePaths(phase) == { calls[i].call.path : i \in PhaseCalls(phase) }

\* C1: when --delete-excluded is not given, no path that matches an exclude
\* pattern is in the delete tree or in the copy tree the diff returns, with
\* --force or without it
ExclusionContainment ==
    (pc \in PostDiff /\ ~args.delete_excluded) =>
        LET patterns == excludePatterns(files_tree_source) IN
        \A keys \in EntriesOf(tree_delete) \cup EntriesOf(tree_copy) :
            ~ExcludedAt(patterns, keys)

\* the directory has a descendant in the excluded-destination tree
HasExcludedDescendant(keys) ==
    \E excluded \in EntriesOf(tree_excluded_destination) : keys \in Above(excluded)

\* C2: with --delete and without --delete-excluded, the tree applied for the
\* deletion of unaccounted content has no self entry for a directory with a
\* descendant in the excluded-destination tree and no excluded path, and has
\* every unaccounted subtree without excluded descendant in full; the cleanup
\* removes exactly its paths, and every excluded destination path survives
AncestorProtection ==
    (pc \in PostDiff /\ args.delete /\ ~args.delete_excluded) =>
        LET applied == EntriesOf(tree_unaccounted_destination_non_excluded)
            unaccounted == EntriesOf(tree_unaccounted_destination)
            excluded == EntriesOf(tree_excluded_destination)
            patterns == excludePatterns(files_tree_source)
        IN  /\ \A keys \in applied :
                  /\ ~HasExcludedDescendant(keys)
                  /\ keys \notin excluded
                  /\ ~ExcludedAt(patterns, keys)
            /\ \A keys \in unaccounted :
                  ~HasExcludedDescendant(keys) =>
                      /\ keys \in applied
                      /\ At(tree_unaccounted_destination_non_excluded, keys)
                            = At(tree_unaccounted_destination, keys)
            /\ (pc \in {"copy", "done"} /\ ~args.dry_run) =>
                  /\ PhasePaths("cleanup")
                        = DestinationPaths(tree_unaccounted_destination_non_excluded)
                  /\ \A keys \in excluded : ~IsNone(At(fs_destination, keys))
                  /\ \A keys \in unaccounted :
                        HasExcludedDescendant(keys) => IsDict(At(fs_destination, keys))
            /\ (pc = "copy" /\ ~args.dry_run) =>
                  \A keys \in applied : IsNone(At(fs_destination, keys))

\* an unaccounted directory with an excluded descendant was kept while
\* unaccounted content in it was removed
AncestorProtectionWitness ==
    /\ pc = "copy" /\ args.delete /\ ~args.delete_excluded /\ ~args.dry_run
    /\ \E keys \in EntriesOf(tree_unaccounted_destination) :
          /\ HasExcludedDescendant(keys)
          /\ IsDict(At(fs_destination, keys))
          /\ \E removed \in EntriesOf(tree_unaccounted_destination_non_excluded) :
                keys \in Above(removed) /\ IsNone(At(fs_destination, removed))

ComparedFiles(keys) ==
    /\ IsTuple(At(files_tree_source, keys))
    /\ IsTuple(At(files_tree_destination, keys))
    /\ NotExcludedFromRoot(excludePatterns(files_tree_source), keys)

\* C4: for a file on both sides that is not excluded, the diff puts the pair
\* into copy and delete exactly when the source's modify time is strictly
\* greater, and nothing into either otherwise, whatever the access times
TieBreak ==
    pc \in PostDiff =>
        \A keys \in EntriesOf(files_tree_source) :
            ComparedFiles(keys) =>
                LET source == At(files_tree_source, keys)
                    destination == At(files_tree_destination, keys)
                IN  IF source.t[2] > destination.t[2]
                    THEN /\ At(tree_copy, keys) = source
                         /\ At(tree_delete, keys) = destination
                    ELSE /\ IsNone(At(tree_copy, keys))
                         /\ IsNone(At(tree_delete, keys))

\* two files with the same modify time and different access times were left
\* alone
TieBreakWitness ==
    /\ pc = "delete"
    /\ \E keys \in EntriesOf(files_tree_source) :
          /\ ComparedFiles(keys)
          /\ At(files_tree_source, keys).t[2] = At(files_tree_destination, keys).t[2]
          /\ At(files_tree_source, keys).t[1] > At(files_tree_destination, keys).t[1]
          /\ IsNone(At(tree_copy, keys))

\* a file on one side and a directory on the other at a path the diff walks to
TypeConflictAt(keys) ==
    /\ \/ IsTuple(At(files_tree_source, keys)) /\ IsDict(At(files_tree_destination, keys))
       \/ IsDict(At(files_tree_source, keys)) /\ IsTuple(At(files_tree_destination, keys))
    /\ NotExcludedFromRoot(excludePatterns(files_tree_source), keys)

TypeConflict == \E keys \in EntriesOf(files_tree_source) : TypeConflictAt(keys)

\* C5 as stated: without --force, a dry run included, a type conflict at a
\* path that is not excluded ends the diff in a fatal error
TypeConflictRefusalAlsoDryRun ==
    (pc \in PostDiff \cup {"refused"} /\ ~args.force /\ TypeConflict) => pc = "refused"

\* C5: the diff ends in a fatal error exactly when there is a type conflict
\* at a path that is not excluded and neither --force nor --dry-run is given;
\* with either flag it returns its trees
TypeConflictRefusal ==
    pc \in PostDiff \cup {"refused"} =>
        (pc = "refused" <=> (TypeConflict /\ ~args.force /\ ~args.dry_run))

\* a run was refused
TypeConflictRefusalWitness ==
    pc = "refused" /\ TypeConflict /\ ~args.force /\ ~args.dry_run /\ calls = <<>>

\* C6: a dry run computes the trees (its diff is never refused), makes no
\* mutating endpoint call and leaves the endpoints as they were
DryRunPurity ==
    [][args.dry_run =>
          /\ fs_destination' = fs_destination
          /\ fs_source' = fs_source
          /\ calls' = <<>>
          /\ pc = "start" => pc' = "delete"]_vars

\* a dry run ended that had files to delete, to clean up and to copy, on a
\* destination whose snapshot is still the one the run started with
DryRunPurityWitness ==
    /\ args.dry_run /\ args.delete /\ pc = "done" /\ calls = <<>>
    /\ ~IsNone(tree_delete) /\ ~IsNone(tree_copy)
    /\ ~IsNone(tree_unaccounted_destination_non_excluded)
    /\ files_tree_destination = DestinationSnapshot

\* the destination files without source entry
WithoutSource ==
    { keys \in EntriesOf(files_tree_destination) :
        IsTuple(At(files_tree_destination, keys)) /\ IsNone(At(files_tree_source, keys)) }

\* what the diff and the executor do with a destination file: it is in the
\* unaccounted-destination tree and not in the delete tree; without a delete
\* flag the executor leaves it alone; with --delete it is in a tree the
\* cleanup applies and, unless the run is a dry run, the cleanup unlinks it
TreatedAsUnaccounted(keys) ==
    /\ At(tree_unaccounted_destination, keys) = At(files_tree_destination, keys)
    /\ IsNone(At(tree_delete, keys))
    /\ (pc \in {"copy", "done"} /\ ~args.delete /\ ~args.delete_excluded) =>
          /\ IsTuple(At(fs_destination, keys))
          /\ \A i \in 1..Len(calls) : calls[i].call.path # DestinationPath(keys)
    /\ args.delete =>
          LET applied == CleanupTrees(args.delete, args.delete_excluded,
                                      tree_excluded_destination,
                                      tree_unaccounted_destination,
                                      tree_unaccounted_destination_non_excluded)
          IN  \E i \in 1..Len(applied) : IsTuple(At(applied[i], keys))
    /\ (pc \in {"copy", "done"} /\ args.delete /\ ~args.dry_run) =>
          /\ \E i \in PhaseCalls("cleanup") :
                calls[i].call.op = "unlink" /\ calls[i].call.path = DestinationPath(keys)
          /\ IsNone(At(fs_destination, keys))

\* C7 as stated: a destination file without source entry that matches no
\* exclude pattern is in the unaccounted-destination tree and not in the
\* delete tree; the executor leaves it alone without a delete flag and
\* removes it with --delete
UnaccountedContentAnyFile ==
    pc \in PostDiff =>
        \A keys \in WithoutSource :
            ~ExcludedAt(excludePatterns(files_tree_source), keys) => TreatedAsUnaccounted(keys)

\* the diff walks to the entry as a destination entry: neither it nor a
\* directory above it is excluded, and no directory above it is a file in
\* the source
WalkedDestination(keys) ==
    /\ NotExcludedFromRoot(excludePatterns(files_tree_source), keys)
    /\ \A prefix \in Above(keys) : ~IsTuple(At(files_tree_source, prefix))

\* C7: a destination file without source entry, such that neither it nor a
\* directory above it matches an exclude pattern and no directory above it is
\* a file in the source, is in the unaccounted-destination tree and not in
\* the delete tree; the executor leaves it alone without a delete flag and
\* removes it with --delete
UnaccountedContent ==
    pc \in PostDiff =>
        \A keys \in WithoutSource : WalkedDestination(keys) => TreatedAsUnaccounted(keys)

\* a run with --delete unlinked an unaccounted file
UnaccountedContentWitness ==
    /\ pc = "done" /\ args.delete /\ ~args.dry_run
    /\ \E keys \in WithoutSource :
          /\ WalkedDestination(keys)
          /\ IsNone(At(fs_destination, keys))
          /\ \E i \in PhaseCalls("cleanup") :
                calls[i].call.op = "unlink" /\ calls[i].call.path = DestinationPath(keys)

RECURSIVE Pruned(_)
\* a tuple, or a dict that is not empty and holds only such values
Pruned(tree) ==
    \/ IsTuple(tree)
    \/ /\ IsDict(tree)
       /\ DOMAIN tree.d # {}
       /\ \A key \in DOMAIN tree.d : Pruned(tree.d[key])

RECURSIVE Tuples(_, _)
\* the tuples of a tree with the keys that lead to them
Tuples(tree, keys) ==
    IF IsTuple(tree) THEN {<<keys, tree.t>>}
    ELSE IF IsDict(tree)
         THEN UNION { Tuples(tree.d[key], Append(keys, key)) : key \in DOMAIN tree.d }
    ELSE {}

\* C8: the tree prune_tree returns holds no None and no empty dict, has every
\* tuple of its input at the same keys and no other, and prune_tree returns
\* it unchanged
PruneTree ==
    (pc \in {"pruned", "pruned again"}) =>
        /\ IsNone(pruned_tree) \/ Pruned(pruned_tree)
        /\ Tuples(pruned_tree, <<>>) = Tuples(raw_tree, <<>>)
        /\ pc = "pruned again" => pruned_tree = raw_tree

\* a tree with a None value, an empty dict and a tuple was pruned
PruneTreeWitness ==
    /\ pc = "pruned" /\ IsDict(raw_tree) /\ IsDict(pruned_tree)
    /\ \E key \in DOMAIN raw_tree.d : IsNone(raw_tree.d[key])
    /\ \E key \in DOMAIN raw_tree.d : IsDict(raw_tree.d[key]) /\ DOMAIN raw_tree.d[key].d = {}
    /\ \E key \in DOMAIN raw_tree.d : IsTuple(raw_tree.d[key])

\* C9: the executor makes the calls of the delete tree, then those of the
\* cleanup of unaccounted and excluded content, then those of the copy tree;
\* removals belong to the first two phases only, and no phase is entered twice
PhaseOrder ==
    /\ \A i, j \in 1..Len(calls) :
          i < j => \/ calls[i].phase = calls[j].phase
                   \/ calls[i].phase = "delete"
                   \/ calls[j].phase = "copy"
    /\ \A i \in 1..Len(calls) :
          calls[i].call.op \in {"unlink", "rmdir"} <=> calls[i].phase \in {"delete", "cleanup"}
    /\ pc \in {"start", "delete", "refused"} => calls = <<>>
    /\ pc = "cleanup" => PhaseCalls("cleanup") \cup PhaseCalls("copy") = {}
    /\ pc = "copy" => PhaseCalls("copy") = {}
    /\ (pc = "done" /\ ~args.dry_run) =>
          /\ PhasePaths("delete") = DestinationPaths(tree_delete)
          /\ PhasePaths("copy") = DestinationPaths(tree_copy)

\* a run ended that made calls in each of the three phases
PhaseOrderWitness ==
    /\ pc = "done"
    /\ PhaseCalls("delete") # {} /\ PhaseCalls("cleanup") # {} /\ PhaseCalls("copy") # {}

\* C10: a directory created from the copy tree gets a timestamp-restore call
\* with the times of its self entry, made after every call on a path below it
DirectoryTimestampRestore ==
    (pc = "done" /\ ~args.dry_run) =>
        \A keys \in EntriesOf(tree_copy) :
            IsDict(At(tree_copy, keys)) =>
                \E i \in PhaseCalls("copy") :
                    /\ calls[i].call.op = "utime"
                    /\ calls[i].call.path = DestinationPath(keys)
                    /\ calls[i].call.times = At(tree_copy, keys).d[SelfKey].t
                    /\ \A j \in PhaseCalls("copy") :
                          PathIsBelow(DestinationPath(keys), calls[j].call.path) => j < i

\* C11: where the source snapshot has a directory and the destination
\* snapshot a file at a path that matches an exclude pattern (no directory
\* above it does), the delete tree of the diff holds nothing at the path and
\* the excluded-destination tree holds the destination file
ExcludedFileUnderSourceDirectory ==
    pc \in PostDiff =>
        LET patterns == excludePatterns(files_tree_source) IN
        \A keys \in EntriesOf(files_tree_source) :
            ( /\ IsDict(At(files_tree_source, keys))
              /\ IsTuple(At(files_tree_destination, keys))
              /\ ExcludedAt(patterns, keys)
              /\ \A prefix \in Above(keys) : ~ExcludedAt(patterns, prefix) ) =>
                /\ IsNone(At(tree_delete, keys))
                /\ At(tree_excluded_destination, keys) = At(files_tree_destination, keys)

\* a destination directory without source entry that the diff walks to
AbsentSourceBranch(keys) ==
    /\ IsDict(At(files_tree_destination, keys))
    /\ IsNone(At(files_tree_source, keys))
    /\ WalkedDestination(keys)

\* the entries of the destination snapshot in a directory, the directory
\* included
InBranch(keys) ==
    { entry \in EntriesOf(files_tree_destination) : keys \in Above(entry) \cup {entry} }

\* C12 as stated: for a destination directory without source entry that is
\* not excluded, the delete tree holds the whole directory, and so does the
\* unaccounted-destination tree
AbsentSourceBranchDeleted ==
    pc \in PostDiff =>
        \A keys \in EntriesOf(files_tree_destination) :
            AbsentSourceBranch(keys) =>
                /\ At(tree_delete, keys) = At(files_tree_destination, keys)
                /\ At(tree_unaccounted_destination, keys) = At(files_tree_destination, keys)

\* C12: for a destination directory without source entry that is not
\* excluded, the delete tree holds nothing at or below the directory; the
\* unaccounted-destination tree holds the directory and every entry below it
\* that is not excluded (itself or by a directory above it) as the snapshot
\* has it, and no entry that is excluded; without excluded entry it holds the
\* whole directory
AbsentSourceBranchUnaccounted ==
    [](pc \in PostDiff =>
        LET patterns == excludePatterns(files_tree_source) IN
        \A keys \in EntriesOf(files_tree_destination) :
            AbsentSourceBranch(keys) =>
                /\ IsNone(At(tree_delete, keys))
                /\ \A entry \in InBranch(keys) :
                      LET snapshot == At(files_tree_destination, entry)
                          unaccounted == At(tree_unaccounted_destination, entry)
                      IN  IF NotExcludedFromRoot(patterns, entry)
                          THEN IF IsTuple(snapshot) THEN unaccounted = snapshot
                               ELSE /\ IsDict(unaccounted)
                                    /\ DictGet(unaccounted.d, SelfKey) = snapshot.d[SelfKey]
                          ELSE entry \notin EntriesOf(tree_unaccounted_destination)
                /\ (\A entry \in InBranch(keys) : NotExcludedFromRoot(patterns, entry)) =>
                      At(tree_unaccounted_destination, keys) = At(files_tree_destination, keys))

\* the diff met a destination directory without source entry that holds an
\* entry: all of it is unaccounted, nothing of it is to delete
AbsentSourceBranchUnaccountedWitness ==
    /\ pc = "delete"
    /\ \E keys \in EntriesOf(files_tree_destination) :
          /\ AbsentSourceBranch(keys)
          /\ ChildKeys(At(files_tree_destination, keys)) # {}
          /\ At(tree_unaccounted_destination, keys) = At(files_tree_destination, keys)
          /\ IsNone(At(tree_delete, keys))

RECURSIVE BranchKeys(_, _)
\* the dicts of a tree, each as the sequence of keys that leads to it
BranchKeys(tree, keys) ==
    IF ~IsDict(tree) THEN {}
    ELSE {keys} \cup UNION { BranchKeys(tree.d[key], Append(keys, key)) : key \in ChildKeys(tree) }

\* the trees remove_tree is applied to in a phase, in order
RemovalTrees(phase) ==
    IF phase = "delete" THEN <<tree_delete>>
    ELSE CleanupTrees(args.delete, args.delete_excluded, tree_excluded_destination,
                      tree_unaccounted_destination, tree_unaccounted_destination_non_excluded)

\* the removal phases that have ended
RemovalsDone ==
    CASE pc \in {"cleanup"} -> {"delete"}
      [] pc \in {"copy", "done"} -> {"delete", "cleanup"}
      [] OTHER -> {}

\* C20: for every tree remove_tree is applied to and every dict in it: with a
\* self entry, the directory is removed by a call made after the removal
\* calls of everything the tree holds below it; without a self entry, no
\* removal call of the tree is made on the directory itself, while what the
\* tree holds below it is removed
DeleteBottomUp ==
    [](~args.dry_run =>
        \A phase \in {"delete", "cleanup"} :
            \A applied \in {RemovalTrees(phase)} :
            \A n \in 1..Len(applied) :
                \A keys \in BranchKeys(applied[n], <<>>) :
                \A below \in {{ entry \in EntriesOf(applied[n]) : keys \in Above(entry) }} :
                    LET on(entry) == { i \in PhaseCalls(phase) :
                                         calls[i].call.path = DestinationPath(entry) }
                    IN  /\ phase \in RemovalsDone => \A entry \in below : on(entry) # {}
                        /\ IF keys \in EntriesOf(applied[n])
                           THEN /\ phase \in RemovalsDone =>
                                      \E i \in on(keys) : calls[i].call.op = "rmdir"
                                /\ \A i \in on(keys) :
                                      /\ calls[i].call.op = "rmdir"
                                      /\ \A entry \in below : \E j \in on(entry) : j < i
                           ELSE \A i \in on(keys) :
                                    \E m \in 1..Len(applied) :
                                        m # n /\ keys \in EntriesOf(applied[m]))

\* the delete tree held a directory with a self entry and a file in it, below
\* a directory without self entry: the file was unlinked, then the directory
\* removed, and no call was made on the directory above
DeleteBottomUpWitness ==
    /\ pc = "cleanup" /\ ~args.dry_run
    /\ \E keys \in EntriesOf(tree_delete) :
          /\ IsDict(At(tree_delete, keys))
          /\ <<>> \in Above(keys) /\ <<>> \notin EntriesOf(tree_delete)
          /\ \A i \in PhaseCalls("delete") : calls[i].call.path # path_destination
          /\ \E entry \in EntriesOf(tree_delete) :
                /\ keys \in Above(entry)
                /\ \E i, j \in PhaseCalls("delete") :
                      /\ j < i
                      /\ calls[j].call = Call("unlink", DestinationPath(entry), <<>>, <<>>)
                      /\ calls[i].call = Call("rmdir", DestinationPath(keys), <<>>, <<>>)

\* C19: a run that has ended as refused, and every run past its start that
\* has a type conflict at a path that is not excluded, wherever in the tree,
\* with neither --force nor --dry-run, is a refused run that has made no
\* mutating endpoint call; the step that refuses a run is the step from its
\* start, makes no call and leaves both endpoints as they were
RefusalBeforeMutation ==
    /\ [](  (pc = "refused" \/ (pc # "start" /\ TypeConflict /\ ~args.force /\ ~args.dry_run))
            => (pc = "refused" /\ calls = <<>>)  )
    /\ [][ pc' = "refused" =>
              /\ pc = "start"
              /\ calls = <<>> /\ calls' = <<>>
              /\ fs_destination' = fs_destination
              /\ fs_source' = fs_source ]_vars

\* a run was refused for a conflict below the sync root although the source
\* held a file to copy; the destination is as its snapshot was taken
RefusalBeforeMutationWitness ==
    /\ pc = "refused" /\ calls = <<>>
    /\ files_tree_destination = DestinationSnapshot
    /\ \E keys \in EntriesOf(files_tree_source) : TypeConflictAt(keys) /\ keys # <<>>
    /\ \E keys \in EntriesOf(files_tree_source) :
          IsTuple(At(files_tree_source, keys)) /\ IsNone(At(files_tree_destination, keys))

\* the calls push_tree_here makes for the copy tree when every call succeeds
CopyCalls ==
    IF IsNone(tree_copy) THEN <<>>
    ELSE push_tree_here(path_source, tree_copy, path_destination, args.dry_run)

\* what the destination holds at the path of a call
AtPathOf(call) == GetAt(fs_destination, RelComps(path_destination, call.path))

\* C18: a push/pull that reported a nonzero status is the last call of its
\* run, and the run is over: the calls of the copy phase are those planned
\* for the copy tree up to that transfer, the next one planned,
\* set-timestamps for the same file, was not made, and nothing planned after
\* it was; the removals made before it were all carried out and what they
\* removed is still gone, and every file copied and directory made before it
\* is still there
TransferFailure ==
    [](\A i \in 1..Len(calls) :
        (calls[i].call.op = "push_file_here" /\ ~calls[i].ok) =>
            LET copied == PhaseCalls("copy")
                n == Cardinality(copied)
                first == Len(calls) - n
            IN  /\ pc = "aborted"
                /\ i = Len(calls)
                /\ calls[i].phase = "copy"
                /\ n < Len(CopyCalls)
                /\ \A k \in 1..n : calls[first + k].call = CopyCalls[k]
                /\ CopyCalls[n + 1] = Call("utime", calls[i].call.path, <<>>, CopyCalls[n + 1].times)
                /\ \A j \in 1..first :
                      /\ calls[j].call.op \in {"unlink", "rmdir"}
                      /\ calls[j].ok
                      /\ (\A k \in copied : calls[k].call.path # calls[j].call.path) =>
                            IsNone(AtPathOf(calls[j].call))
                /\ \A j \in copied \ {i} :
                      /\ calls[j].ok
                      /\ calls[j].call.op = "makedirs" => IsDict(AtPathOf(calls[j].call))
                      /\ calls[j].call.op = "utime" =>
                            AtPathOf(calls[j].call)
                                = Leaf(<<TouchTime(calls[j].call.times[1]),
                                         TouchTime(calls[j].call.times[2])>>))

\* a transfer failed after a file had been deleted and another file had been
\* copied and given its times
TransferFailureWitness ==
    /\ pc = "aborted"
    /\ calls # <<>>
    /\ calls[Len(calls)].call.op = "push_file_here" /\ ~calls[Len(calls)].ok
    /\ \E j \in PhaseCalls("delete") : calls[j].call.op = "unlink" /\ calls[j].ok
    /\ \E j \in PhaseCalls("copy") : calls[j].call.op = "utime" /\ calls[j].ok

\* C17: after diff_trees has returned, the source snapshot and the
\* destination snapshot it was given are what they were before the call
ReadOnlySnapshots ==
    pc \in PostDiff =>
        /\ source_after_diff = files_tree_source
        /\ destination_after_diff = files_tree_destination

\* -------------------------------------------------- the shell channel
\* C13: a command is written to the shell only when the sentinel of every
\* command written before it has been read: at most one command is in flight,
\* also while a directory listing is consumed and commands are issued for
\* its children
ShellSerialization ==
    /\ [](in_flight <= 1)
    /\ [][in_flight' > in_flight => in_flight = 0]_vars

\* a command for a child is in flight while the listing of the directory
\* above it still has lines to hand over
ShellSerializationWitness ==
    /\ Len(stack) >= 2
    /\ in_flight = 1
    /\ top.state = "reading"
    /\ stack[Len(stack) - 1].cmd = "lstat_in_dir"
    /\ stack[Len(stack) - 1].sentinel
    /\ stack[Len(stack) - 1].lines # <<>>

\* C14: adb_shell hands lines to its caller only after it has read the
\* sentinel; output that ends before the sentinel is not handed over as a reply
SentinelFraming ==
    \A i \in 1..Len(stack) : stack[i].state = "yielding" => stack[i].sentinel

RECURSIVE HasLinkChild(_)
\* a directory of the tree has a symbolic link among its children
HasLinkChild(node) ==
    /\ IsDict(node)
    /\ \E key \in ChildKeys(node) : IsLink(node.d[key]) \/ HasLinkChild(node.d[key])

RECURSIVE SkipsLinks(_, _)
\* the snapshot of the entry has nothing for a link and something for every
\* other child of every directory
SkipsLinks(node, tree) ==
    IF IsLink(node) THEN IsNone(tree)
    ELSE IF IsDict(node)
    THEN /\ IsDict(tree)
         /\ \A key \in ChildKeys(node) : SkipsLinks(node.d[key], DictGet(tree.d, key))
    ELSE IsTuple(tree)

\* C15: without copy_links the walk over a remote directory with a symbolic
\* link among its children ends without error, with nothing for the link and
\* with every other child in the snapshot
SymlinkSkip ==
    ( /\ pc \notin {"snapshot", "walking"}
      /\ ~args.copy_links
      /\ ~proc_adb_shell.exited
      /\ proc_adb_shell.noise = MaxNoise
      /\ HasLinkChild(fs_destination) )
    => /\ pc = "walked"
       /\ SkipsLinks(fs_destination, files_tree_destination)

\* what is to be done with a line of the reply to lstat or lstat_in_dir: an
\* error line raises, a total line of a directory listing is skipped, a line
\* of the listing grammar gives a stat record, any other line is fatal
Classified(cmd, line) ==
    IF line.form = "error"
    THEN IF line.text = NoSuchFile THEN "FileNotFoundError" ELSE "NotADirectoryError"
    ELSE IF line.form = "total" /\ cmd = "lstat_in_dir" THEN "skipped"
    ELSE IF line.form = "stat" THEN "stat"
    ELSE "SystemExit"

\* C16: every line of the reply to a remote stat or directory listing is
\* handled as its class says; no line is passed over
LineClassification ==
    /\ \A i \in 1..Len(handled) :
           handled[i].how = Classified(handled[i].cmd, handled[i].line)
    /\ \A i \in 1..Len(stack) :
           (stack[i].cmd = "lstat" /\ stack[i].state = "yielding") => Len(stack[i].lines) <= 1

\* ------------------------------------------------------- the copy phase
\* the files of the copy tree
CopiedFiles == { keys \in EntriesOf(tree_copy) : IsTuple(At(tree_copy, keys)) }

\* the calls of the copy phase that push the file
PushesOf(keys) ==
    { i \in PhaseCalls("copy") : /\ calls[i].call.op = "push_file_here"
                                 /\ calls[i].call.path = DestinationPath(keys) }

\* the directory above the file
Parent(keys) == SubSeq(keys, 1, Len(keys) - 1)

\* the destination directory was in the snapshot and no removal call was made
\* on it or on a directory above it before the call i
KeptUntil(directory, i) ==
    /\ IsDict(At(files_tree_destination, directory))
    /\ \A j \in 1..(i - 1) :
          calls[j].call.op \in {"unlink", "rmdir"} =>
              \A above \in Above(directory) \cup {directory} :
                  calls[j].call.path # DestinationPath(above)

\* the copy phase made the destination directory before the call i
MadeBefore(directory, i) ==
    \E j \in PhaseCalls("copy") :
        /\ j < i
        /\ calls[j].ok
        /\ calls[j].call = Call("makedirs", DestinationPath(directory), <<>>, <<>>)

\* C21: when the run is not a dry run, every file of the copy tree is pushed
\* once the copy phase is over; before any push the copy phase has made every
\* directory above the file that the copy tree creates; a push that succeeded
\* is followed at once by the set-timestamps call on the same path with the
\* times of the source snapshot's tuple; when a file below the sync root is
\* pushed, the directory above it is a directory of the destination snapshot
\* that was not removed, or was made earlier in the copy phase
CopyTopDown ==
    []((~args.dry_run /\ pc \in PostDiff \cup {"aborted"}) =>
        \A keys \in CopiedFiles :
            /\ pc = "done" => PushesOf(keys) # {}
            /\ \A i \in PushesOf(keys) :
                  /\ \A above \in Above(keys) :
                        ~IsNone(DictGet(At(tree_copy, above).d, SelfKey)) => MadeBefore(above, i)
                  /\ calls[i].ok =>
                        /\ i < Len(calls)
                        /\ calls[i + 1].phase = "copy"
                        /\ calls[i + 1].call = Call("utime", DestinationPath(keys), <<>>,
                                                    At(files_tree_source, keys).t)
                  /\ keys # <<>> =>
                        \/ KeptUntil(Parent(keys), i)
                        \/ MadeBefore(Parent(keys), i))

\* a completed run made a directory, pushed a file into it and set the
\* file's times, and pushed a file into a directory the destination had
CopyTopDownWitness ==
    /\ pc = "done" /\ ~args.dry_run
    /\ \E keys \in CopiedFiles :
          /\ keys # <<>>
          /\ \E i \in PushesOf(keys) :
                /\ MadeBefore(Parent(keys), i)
                /\ calls[i].ok /\ calls[i + 1].ok
                /\ calls[i + 1].call.op = "utime"
    /\ \E keys \in CopiedFiles :
          /\ keys # <<>>
          /\ \E i \in PushesOf(keys) : KeptUntil(Parent(keys), i) /\ calls[i].ok

\* ---------------------------------------------------- the cleanup phase
\* the destination paths the cleanup is to remove under the two flags
CleanupPaths ==
    IF args.delete_excluded /\ args.delete
    THEN DestinationPaths(tree_excluded_destination)
         \cup DestinationPaths(tree_unaccounted_destination)
    ELSE IF args.delete_excluded THEN DestinationPaths(tree_excluded_destination)
    ELSE IF args.delete THEN DestinationPaths(tree_unaccounted_destination_non_excluded)
    ELSE {}

\* the paths of the entries of the destination snapshot that the destination
\* no longer holds
Gone ==
    { DestinationPath(keys) :
          keys \in { entry \in EntriesOf(files_tree_destination) :
                         IsNone(At(fs_destination, entry)) } }

\* C22: when the run is not a dry run and the cleanup is over, its removal
\* calls were made on exactly the paths the two flags select: those of the
\* excluded-destination tree with --delete-excluded alone (none of them a
\* path of the unaccounted tree), those of the unaccounted tree without the
\* directories above excluded entries with --delete alone (none of them a
\* path of the excluded-destination tree or a path that matches a pattern),
\* those of both trees with both flags, none without a flag; and what the
\* destination has lost by then is what the delete tree and these paths name
CleanupPolicy ==
    []((~args.dry_run /\ pc \in {"copy", "done"}) =>
        /\ PhasePaths("cleanup") = CleanupPaths
        /\ (args.delete_excluded /\ ~args.delete) =>
              PhasePaths("cleanup") \cap DestinationPaths(tree_unaccounted_destination) = {}
        /\ (args.delete /\ ~args.delete_excluded) =>
              /\ PhasePaths("cleanup") \cap DestinationPaths(tree_excluded_destination) = {}
              /\ \A keys \in EntriesOf(files_tree_destination) :
                    DestinationPath(keys) \in PhasePaths("cleanup") =>
                        ~ExcludedAt(excludePatterns(files_tree_source), keys)
        /\ pc = "copy" => Gone = DestinationPaths(tree_delete) \cup CleanupPaths)

\* with --delete-excluded alone the cleanup removed the excluded entries and
\* left an unaccounted entry where it was
CleanupPolicyWitness ==
    /\ pc = "copy" /\ ~args.dry_run
    /\ args.delete_excluded /\ ~args.delete
    /\ PhasePaths("cleanup") # {}
    /\ PhasePaths("cleanup") = DestinationPaths(tree_excluded_destination)
    /\ \E keys \in EntriesOf(tree_unaccounted_destination) :
          ~IsNone(At(fs_destination, keys))

\* -------------------------------------------------- the run as a whole
\* the files of the source snapshot
SourceFiles == { keys \in EntriesOf(files_tree_source) : IsTuple(At(files_tree_source, keys)) }

\* the destination holds a file at the entry, not older than the source's
\* file at minute resolution
InSync(keys) ==
    /\ IsTuple(At(fs_destination, keys))
    /\ At(fs_destination, keys).t[2] >= At(files_tree_source, keys).t[2]

\* C23: when a run that is not a dry run has completed, whatever the delete
\* flags, the destination holds, for every source file that is not excluded
\* itself or by a directory above it, a file at the same place whose modify
\* time is not before the source's modify time at minute resolution
SyncPostcondition ==
    []((pc = "done" /\ ~args.dry_run) =>
        \A keys \in SourceFiles :
            NotExcludedFromRoot(excludePatterns(files_tree_source), keys) => InSync(keys))

\* a completed run with --force and --delete put a file where the
\* destination had a directory, below the sync root
SyncPostconditionWitness ==
    /\ pc = "done" /\ ~args.dry_run /\ args.force /\ args.delete
    /\ \E keys \in SourceFiles :
          /\ keys # <<>>
          /\ IsDict(At(files_tree_destination, keys))
          /\ PushesOf(keys) # {}
          /\ InSync(keys)

\* ------------------------------------------------- the three removal trees
\* the removal calls of the run
Removals == { i \in 1..Len(calls) : calls[i].call.op \in {"unlink", "rmdir"} }

\* C24: no entry, tuple or dict with a self entry, is in two of the delete
\* tree, the unaccounted-destination tree and the excluded-destination tree
\* after pruning; and whatever the delete flags, no two removal calls of a
\* run are made on the same destination path
DisjointDeletionTrees ==
    [](/\ pc \in PostDiff =>
            /\ EntriesOf(tree_delete) \cap EntriesOf(tree_unaccounted_destination) = {}
            /\ EntriesOf(tree_delete) \cap EntriesOf(tree_excluded_destination) = {}
            /\ EntriesOf(tree_unaccounted_destination)
                   \cap EntriesOf(tree_excluded_destination) = {}
       /\ \A i, j \in Removals : calls[i].call.path = calls[j].call.path => i = j)

\* with both delete flags the cleanup removed an excluded file and the
\* unaccounted directory that held it, each by one call that succeeded
DisjointDeletionTreesWitness ==
    /\ pc = "copy" /\ ~args.dry_run /\ args.delete /\ args.delete_excluded
    /\ \E file \in EntriesOf(tree_excluded_destination) :
       \E directory \in EntriesOf(tree_unaccounted_destination) :
          /\ directory \in Above(file)
          /\ \E i, j \in Removals :
                /\ i < j /\ calls[i].ok /\ calls[j].ok
                /\ calls[i].call = Call("unlink", DestinationPath(file), <<>>, <<>>)
                /\ calls[j].call = Call("rmdir", DestinationPath(directory), <<>>, <<>>)

\* ------------------------------------------------------- the local walk
\* C25: under both symlink policies get_files_tree comes to its end on every
\* directory and returns the snapshot; a link to the directory it is in, or
\* to a directory above, does not keep the walk nesting
SnapshotTermination == <>(pc = "walked")

====
